---- MODULE Spec2Model ----
(***************************************************************************)
(* robot-diff: canonical robot model (model.py), structural diff engine    *)
(* (diff.py) and the name handling of the four normalizers (parsers.py).   *)
(*                                                                         *)
(* Python values are modelled as tagged records with one shape:            *)
(*   k     : "None" | "float" | "int" | "str" | "list" | "tuple" | "dc"    *)
(*   n     : the number of a float or an int (floats are the rationals n/1)*)
(*   s     : the text of a str, or the class name of a dataclass instance  *)
(*   items : the elements of a list or tuple, or the field values of a     *)
(*           dataclass instance in __dataclass_fields__ order              *)
(* A dict is the sequence of its [key, val] entries in insertion order.    *)
(***************************************************************************)
EXTENDS Integers, Sequences, FiniteSets, TLC

VARIABLES
    old_robot,            \* compare_robots argument
    new_robot,            \* compare_robots argument
    excluded_categories,  \* compare_robots argument (None or a set)
    float_tol,            \* compare_robots / compare_values argument
    result,               \* value returned by the call
    pc,                   \* "call" before the function ran, "done" after
    old_value,            \* compare_values argument
    new_value,            \* compare_values argument
    path,                 \* compare_values argument
    fmt,                  \* which normalizer parses the document
    doc                   \* the document handed to the normalizer

vars == <<old_robot, new_robot, excluded_categories, float_tol, result, pc,
          old_value, new_value, path, fmt, doc>>

-----------------------------------------------------------------------------
(* Python values *)

Val(k, n, s, items) == [k |-> k, n |-> n, s |-> s, items |-> items]

None == Val("None", 0, "", <<>>)

Float(n) == Val("float", n, "", <<>>)

PyInt(n) == Val("int", n, "", <<>>)

Str(s) == Val("str", 0, s, <<>>)

List(items) == Val("list", 0, "", items)

Tuple(items) == Val("tuple", 0, "", items)

IsNone(v) == v.k = "None"

\* A provenance triple (_line_number, _source_path, _source_file).
NoMeta == <<None, None, None>>

Meta(line, file) == <<PyInt(line), Str("/robot"), Str(file)>>

\* model.py: a dataclass instance; the three Base fields come first.
Dataclass(cls, meta, own) == Val("dc", 0, cls, meta \o own)

Field(name, compare) == [name |-> name, compare |-> compare]

BaseFields ==
    << Field("_line_number", FALSE),
       Field("_source_path", FALSE),
       Field("_source_file", FALSE) >>

Own(names) == [i \in 1..Len(names) |-> Field(names[i], TRUE)]

\* __dataclass_fields__ of every class of the canonical model.
DataclassFields(cls) ==
    BaseFields \o
    CASE cls = "Pose"      -> Own(<<"xyz", "quat">>)
      [] cls = "Box"       -> Own(<<"size">>)
      [] cls = "Cylinder"  -> Own(<<"radius", "length">>)
      [] cls = "Sphere"    -> Own(<<"radius">>)
      [] cls = "Mesh"      -> Own(<<"filename", "scale">>)
      [] cls = "Inertia"   -> Own(<<"ixx", "ixy", "ixz", "iyy", "iyz", "izz">>)
      [] cls = "Inertial"  -> Own(<<"origin", "mass", "inertia">>)
      [] cls = "Collision" -> Own(<<"name", "origin", "geometry">>)
      [] cls = "Material"  -> Own(<<"name", "rgba", "texture_filename">>)
      [] cls = "Visual"    -> Own(<<"origin", "geometry", "material">>)
      [] cls = "Limit"     -> Own(<<"lower", "upper", "effort", "velocity">>)
      [] cls = "Joint"     -> Own(<<"name", "type", "parent", "child",
                                    "origin", "axis", "limit">>)
      [] cls = "Link"      -> Own(<<"name", "inertial", "collisions", "visuals">>)

FloatTuple(ns) == Tuple([i \in 1..Len(ns) |-> Float(ns[i])])

Pose(meta, xyz, quat) == Dataclass("Pose", meta, <<xyz, quat>>)

IdentityPose == Pose(NoMeta, FloatTuple(<<0, 0, 0>>), FloatTuple(<<1, 0, 0, 0>>))

Box(meta, size) == Dataclass("Box", meta, <<size>>)

Cylinder(meta, radius, length) == Dataclass("Cylinder", meta, <<radius, length>>)

Sphere(meta, radius) == Dataclass("Sphere", meta, <<radius>>)

Mesh(meta, filename, scale) == Dataclass("Mesh", meta, <<filename, scale>>)

Inertia(meta, ixx, ixy, ixz, iyy, iyz, izz) ==
    Dataclass("Inertia", meta, <<ixx, ixy, ixz, iyy, iyz, izz>>)

ZeroInertia ==
    Inertia(NoMeta, Float(0), Float(0), Float(0), Float(0), Float(0), Float(0))

Inertial(meta, origin, mass, inertia) ==
    Dataclass("Inertial", meta, <<origin, mass, inertia>>)

Collision(meta, name, origin, geometry) ==
    Dataclass("Collision", meta, <<name, origin, geometry>>)

Material(meta, name, rgba, texture_filename) ==
    Dataclass("Material", meta, <<name, rgba, texture_filename>>)

Visual(meta, origin, geometry, material) ==
    Dataclass("Visual", meta, <<origin, geometry, material>>)

Limit(meta, lower, upper, effort, velocity) ==
    Dataclass("Limit", meta, <<lower, upper, effort, velocity>>)

Joint(meta, name, type, parent, child, origin, axis, limit) ==
    Dataclass("Joint", meta,
              <<Str(name), Str(type), Str(parent), Str(child), origin, axis, limit>>)

Link(meta, name, inertial, collisions, visuals) ==
    Dataclass("Link", meta, <<Str(name), inertial, List(collisions), List(visuals)>>)

\* model.py Robot: links and joints are dicts.
Robot(name, links, joints) == [name |-> name, links |-> links, joints |-> joints]

-----------------------------------------------------------------------------
(* dicts *)

Entry(key, val) == [key |-> key, val |-> val]

Keys(d) == {d[i].key : i \in 1..Len(d)}

KeyList(d) == [i \in 1..Len(d) |-> d[i].key]

HasKey(d, key) == \E i \in 1..Len(d) : d[i].key = key

\* d[key]
DictGetItem(d, key) == d[CHOOSE i \in 1..Len(d) : d[i].key = key].val

\* d.get(key)
DictGet(d, key) == IF HasKey(d, key) THEN DictGetItem(d, key) ELSE None

\* d[key] = val: a present key keeps its position, a new key goes last.
DictSet(d, key, val) ==
    IF HasKey(d, key)
    THEN [i \in 1..Len(d) |-> IF d[i].key = key THEN Entry(key, val) ELSE d[i]]
    ELSE Append(d, Entry(key, val))

RECURSIVE DictUpdate(_, _)
\* d.update(e)
DictUpdate(d, e) ==
    IF e = <<>> THEN d
    ELSE DictUpdate(DictSet(d, Head(e).key, Head(e).val), Tail(e))

-----------------------------------------------------------------------------
(* diff.py: Change, ItemDiff, RobotDiff *)

Change(old, new) == [old_value |-> old, new_value |-> new]

\* Change.status
ChangeStatus(c) ==
    IF IsNone(c.old_value) THEN "added"
    ELSE IF IsNone(c.new_value) THEN "removed"
    ELSE "modified"

ItemDiff(name, status, changes) ==
    [name |-> name, status |-> status, changes |-> changes]

RobotDiff(old_name, new_name, link_diffs, joint_diffs) ==
    [old_name |-> old_name, new_name |-> new_name,
     link_diffs |-> link_diffs, joint_diffs |-> joint_diffs]

-----------------------------------------------------------------------------
(* diff.py: compare_values *)

Abs(x) == IF x < 0 THEN -x ELSE x

Min(a, b) == IF a <= b THEN a ELSE b

\* A tolerance is the rational num/den, den > 0.
Tol(num, den) == [num |-> num, den |-> den]

\* IsClose with the tolerance taken relative to the old value only.
IsCloseToOld(a, b, tol) == a = b \/ Abs(b - a) * tol.den <= Abs(tol.num * a)

\* IsClose without a tolerance.
IsCloseExact(a, b, tol) == a = b

\* IsClose with the tolerance taken as absolute instead of relative.
IsCloseAbsolute(a, b, tol) == Abs(b - a) * tol.den <= tol.num

\* math.isclose(a, b, rel_tol=tol) on finite floats, abs_tol = 0:
\* a == b, or |b - a| <= |tol * b|, or |b - a| <= |tol * a|.
IsClose(a, b, tol) ==
    \/ a = b
    \/ Abs(b - a) * tol.den <= Abs(tol.num * b)
    \/ Abs(b - a) * tol.den <= Abs(tol.num * a)

\* The indices of the fields that take part in == (field(compare=True)).
ComparedFields(cls) ==
    {i \in 1..Len(DataclassFields(cls)) : DataclassFields(cls)[i].compare}

RECURSIVE PyEq(_, _)
\* Python's old == new: dataclass __eq__ over the compared fields of one class,
\* sequence equality element by element, numbers by value.
PyEq(a, b) ==
    CASE a.k = "dc" /\ b.k = "dc" ->
            /\ a.s = b.s
            /\ \A i \in ComparedFields(a.s) : PyEq(a.items[i], b.items[i])
      [] a.k \in {"list", "tuple"} /\ b.k = a.k ->
            /\ Len(a.items) = Len(b.items)
            /\ \A i \in 1..Len(a.items) : PyEq(a.items[i], b.items[i])
      [] a.k \in {"float", "int"} /\ b.k \in {"float", "int"} -> a.n = b.n
      [] a.k = "str" /\ b.k = "str" -> a.s = b.s
      [] a.k = "None" /\ b.k = "None" -> TRUE
      [] OTHER -> FALSE

\* ValuesEqual without the short-circuit on equal values.
ValuesNeverEqual(old, new) == FALSE

\* diff.py line 91: old == new
ValuesEqual(old, new) == PyEq(old, new)

\* FieldIsCompared that ignores the compare flag.
FieldAlwaysCompared(field_info) == TRUE

\* diff.py line 103: a field with compare=False is skipped
FieldIsCompared(field_info) == field_info.compare

\* diff.py line 108: f"{path}.{field_name}" if path else field_name
FieldPath(p, field_name) == IF p # "" THEN p \o "." \o field_name ELSE field_name

\* diff.py line 121: f"{path}[{i}]", i counted from 0
ElementPath(p, i) == p \o "[" \o ToString(i) \o "]"

\* diff.py lines 81, 95, 116, 128: which branch of compare_values takes the pair
EitherIsNone(old, new) == IsNone(old) \/ IsNone(new)

RECURSIVE compare_values(_, _, _, _)
RECURSIVE compare_fields(_, _, _, _, _)
RECURSIVE compare_elements(_, _, _, _, _)

\* diff.py lines 102-109: the loop over old.__dataclass_fields__, from field i on
compare_fields(old, new, p, tol, i) ==
    IF i > Len(DataclassFields(old.s)) THEN <<>>
    ELSE LET field_info == DataclassFields(old.s)[i]
             rest == compare_fields(old, new, p, tol, i + 1)
         IN  IF ~FieldIsCompared(field_info) THEN rest
             ELSE DictUpdate(
                    compare_values(old.items[i], new.items[i],
                                   FieldPath(p, field_info.name), tol),
                    rest)

RECURSIVE compare_elements_equal_lengths(_, _, _, _, _)
\* compare_elements that walks the elements only when the lengths are equal.
compare_elements_equal_lengths(old, new, p, tol, i) ==
    IF Len(old.items) # Len(new.items) \/ i >= Len(old.items) THEN <<>>
    ELSE DictUpdate(
            compare_values(old.items[i + 1], new.items[i + 1], ElementPath(p, i), tol),
            compare_elements_equal_lengths(old, new, p, tol, i + 1))

\* diff.py lines 120-122: the loop over range(min(len(old), len(new))), from i on
compare_elements(old, new, p, tol, i) ==
    IF i >= Min(Len(old.items), Len(new.items)) THEN <<>>
    ELSE DictUpdate(
            compare_values(old.items[i + 1], new.items[i + 1], ElementPath(p, i), tol),
            compare_elements(old, new, p, tol, i + 1))

\* compare_values that reports two different classes below the path.
compare_values_by_field(old, new, p, tol) ==
    IF EitherIsNone(old, new) THEN <<Entry(p, Change(old, new))>>
    ELSE IF old.k = "float" /\ new.k = "float" THEN
        IF ~IsClose(old.n, new.n, tol) THEN <<Entry(p, Change(old, new))>> ELSE <<>>
    ELSE IF ValuesEqual(old, new) THEN <<>>
    ELSE IF old.k = "dc" /\ new.k = "dc" THEN
        IF old.s # new.s
        THEN <<Entry(FieldPath(p, "__class__"), Change(Str(old.s), Str(new.s)))>>
        ELSE compare_fields(old, new, p, tol, 1)
    ELSE IF old.k = "list" /\ new.k = "list" THEN
        DictUpdate(
            IF Len(old.items) # Len(new.items)
            THEN <<Entry(p, Change(PyInt(Len(old.items)), PyInt(Len(new.items))))>>
            ELSE <<>>,
            compare_elements(old, new, p, tol, 0))
    ELSE IF old.k = "tuple" /\ new.k = "tuple" THEN
        IF Len(old.items) # Len(new.items) THEN <<Entry(p, Change(old, new))>>
        ELSE IF \E i \in 1..Len(old.items) :
                   compare_values(old.items[i], new.items[i], "", tol) # <<>>
             THEN <<Entry(p, Change(old, new))>>
             ELSE <<>>
    ELSE <<Entry(p, Change(old, new))>>

\* diff.py lines 67-140
compare_values(old, new, p, tol) ==
    IF EitherIsNone(old, new) THEN <<Entry(p, Change(old, new))>>
    ELSE IF old.k = "float" /\ new.k = "float" THEN
        IF ~IsClose(old.n, new.n, tol) THEN <<Entry(p, Change(old, new))>> ELSE <<>>
    ELSE IF ValuesEqual(old, new) THEN <<>>
    ELSE IF old.k = "dc" /\ new.k = "dc" THEN
        IF old.s # new.s THEN <<Entry(p, Change(old, new))>>
        ELSE compare_fields(old, new, p, tol, 1)
    ELSE IF old.k = "list" /\ new.k = "list" THEN
        DictUpdate(
            IF Len(old.items) # Len(new.items)
            THEN <<Entry(p, Change(PyInt(Len(old.items)), PyInt(Len(new.items))))>>
            ELSE <<>>,
            compare_elements(old, new, p, tol, 0))
    ELSE IF old.k = "tuple" /\ new.k = "tuple" THEN
        IF Len(old.items) # Len(new.items) THEN <<Entry(p, Change(old, new))>>
        ELSE IF \E i \in 1..Len(old.items) :
                   compare_values(old.items[i], new.items[i], "", tol) # <<>>
             THEN <<Entry(p, Change(old, new))>>
             ELSE <<>>
    ELSE <<Entry(p, Change(old, new))>>

-----------------------------------------------------------------------------
(* Python str: order and substring *)

\* The characters names are written with, in code point order.
CodePoints == "0123456789ABCDEFGHIJKLMNOPQRSTUVWXYZ_abcdefghijklmnopqrstuvwxyz"

CharAt(s, i) == SubSeq(s, i, i)

Ord(c) == CHOOSE i \in 1..Len(CodePoints) : CharAt(CodePoints, i) = c

RECURSIVE StrLessFrom(_, _, _)
\* a < b for str, deciding from character i on
StrLessFrom(a, b, i) ==
    IF i > Len(a) THEN i <= Len(b)
    ELSE IF i > Len(b) THEN FALSE
    ELSE IF CharAt(a, i) = CharAt(b, i) THEN StrLessFrom(a, b, i + 1)
    ELSE Ord(CharAt(a, i)) < Ord(CharAt(b, i))

StrLess(a, b) == StrLessFrom(a, b, 1)

\* sub in s
Contains(s, sub) ==
    \E i \in 1..(Len(s) - Len(sub) + 1) : SubSeq(s, i, i + Len(sub) - 1) = sub

RECURSIVE sorted_descending(_)
\* sorted with the order reversed.
sorted_descending(names) ==
    IF names = {} THEN <<>>
    ELSE LET most == CHOOSE x \in names : \A y \in names \ {x} : StrLess(y, x)
         IN  <<most>> \o sorted_descending(names \ {most})

RECURSIVE sorted(_)
\* sorted(names) for a set of str
sorted(names) ==
    IF names = {} THEN <<>>
    ELSE LET least == CHOOSE x \in names : \A y \in names \ {x} : StrLess(x, y)
         IN  <<least>> \o sorted(names \ {least})

-----------------------------------------------------------------------------
(* diff.py: _filter_diff_by_categories, compare_robots *)

Categories == {"kinematic", "inertial", "collision", "visual"}

\* The excluded_categories argument: None, or a set of categories.
ExcludedNone == [given |-> FALSE, cats |-> {}]

Excluded(cats) == [given |-> TRUE, cats |-> cats]

\* Truth value of the argument: None and the empty set are false.
Truthy(excluded) == excluded.given /\ excluded.cats # {}

\* PathIsExcluded with all() in place of any().
PathHasAllCategories(p, cats) == \A category \in cats : Contains(p, category)

\* PathIsExcluded with == in place of the substring test.
PathEqualsCategory(p, cats) == \E category \in cats : p = category

\* diff.py line 160: any(category in path for category in excluded_categories)
PathIsExcluded(p, cats) == \E category \in cats : Contains(p, category)

\* diff.py lines 157-161: the changes of a modified link that are kept
FilteredChanges(changes, cats) ==
    SelectSeq(changes, LAMBDA e : ~PathIsExcluded(e.key, cats))

\* KeepsAddedRemoved that never drops an added or removed link.
KeepsAddedRemovedAlways(cats) == TRUE

\* diff.py line 166: an added or removed link is kept unless kinematic is excluded
KeepsAddedRemoved(cats) == "kinematic" \notin cats

\* diff.py line 169
FilteredJointDiffs(joint_diffs, cats) ==
    IF "kinematic" \in cats THEN <<>> ELSE joint_diffs

RECURSIVE FilteredLinkDiffsKeepingEmptied(_, _)
\* FilteredLinkDiffs that keeps a modified link whose changes were all filtered out.
FilteredLinkDiffsKeepingEmptied(link_diffs, cats) ==
    IF link_diffs = <<>> THEN <<>>
    ELSE LET name == Head(link_diffs).key
             link_diff == Head(link_diffs).val
             rest == FilteredLinkDiffsKeepingEmptied(Tail(link_diffs), cats)
             filtered_changes == FilteredChanges(link_diff.changes, cats)
         IN  IF link_diff.status = "modified"
             THEN <<Entry(name, ItemDiff(link_diff.name, link_diff.status,
                                         filtered_changes))>> \o rest
             ELSE IF KeepsAddedRemoved(cats) THEN <<Entry(name, link_diff)>> \o rest
             ELSE rest

RECURSIVE FilteredLinkDiffs(_, _)
\* diff.py lines 154-167: the loop over diff.link_diffs.items()
FilteredLinkDiffs(link_diffs, cats) ==
    IF link_diffs = <<>> THEN <<>>
    ELSE LET name == Head(link_diffs).key
             link_diff == Head(link_diffs).val
             rest == FilteredLinkDiffs(Tail(link_diffs), cats)
             filtered_changes == FilteredChanges(link_diff.changes, cats)
         IN  IF link_diff.status = "modified" THEN
                 IF filtered_changes # <<>>
                 THEN <<Entry(name, ItemDiff(link_diff.name, link_diff.status,
                                             filtered_changes))>> \o rest
                 ELSE rest
             ELSE IF KeepsAddedRemoved(cats) THEN <<Entry(name, link_diff)>> \o rest
             ELSE rest

\* diff.py lines 143-173
filter_diff_by_categories(diff, cats) ==
    RobotDiff(diff.old_name, diff.new_name,
              FilteredLinkDiffs(diff.link_diffs, cats),
              FilteredJointDiffs(diff.joint_diffs, cats))

\* item_diff with the two statuses exchanged.
item_diff_swapped(old_items, new_items, name, tol) ==
    LET old_item == DictGet(old_items, name)
        new_item == DictGet(new_items, name)
        changes == compare_values(old_item, new_item, "", tol)
    IN  IF IsNone(old_item) THEN <<Entry(name, ItemDiff(name, "removed", <<>>))>>
        ELSE IF IsNone(new_item) THEN <<Entry(name, ItemDiff(name, "added", <<>>))>>
        ELSE IF changes # <<>> THEN <<Entry(name, ItemDiff(name, "modified", changes))>>
        ELSE <<>>

\* diff.py lines 197-204 and 211-218: the item diff of one name, if any
item_diff(old_items, new_items, name, tol) ==
    LET old_item == DictGet(old_items, name)
        new_item == DictGet(new_items, name)
        changes == compare_values(old_item, new_item, "", tol)
    IN  IF IsNone(old_item) THEN <<Entry(name, ItemDiff(name, "added", <<>>))>>
        ELSE IF IsNone(new_item) THEN <<Entry(name, ItemDiff(name, "removed", <<>>))>>
        ELSE IF changes # <<>> THEN <<Entry(name, ItemDiff(name, "modified", changes))>>
        ELSE <<>>

\* diff.py lines 192, 206: set(old.keys()) | set(new.keys())
all_names(old_items, new_items) == Keys(old_items) \cup Keys(new_items)

RECURSIVE item_diffs(_, _, _, _)
\* diff.py lines 193-204 and 207-218: the loop over the sorted names
item_diffs(old_items, new_items, names, tol) ==
    IF names = <<>> THEN <<>>
    ELSE DictUpdate(item_diff(old_items, new_items, Head(names), tol),
                    item_diffs(old_items, new_items, Tail(names), tol))

\* diff.py lines 190-218: the diff before filtering
unfiltered_diff(old, new, tol) ==
    RobotDiff(old.name, new.name,
              item_diffs(old.links, new.links,
                         sorted(all_names(old.links, new.links)), tol),
              item_diffs(old.joints, new.joints,
                         sorted(all_names(old.joints, new.joints)), tol))

\* diff.py lines 176-220
compare_robots(old, new, excluded, tol) ==
    LET diff == unfiltered_diff(old, new, tol)
    IN  IF Truthy(excluded) THEN filter_diff_by_categories(diff, excluded.cats)
        ELSE diff

-----------------------------------------------------------------------------
(* Inputs of the diff engine: canonical robots as the normalizers build them *)

MaxScalar == 2

MaxLine == 1

MaxExtraCollisions == 1

DefaultTolDen == 1000000

\* float_tol's default, 1e-6
DefaultTol == Tol(1, DefaultTolDen)

Tols == {DefaultTol, Tol(1, 2)}

ExcludedInputs == {ExcludedNone} \cup {Excluded(cats) : cats \in SUBSET Categories}

Scalars == 1..MaxScalar

Metas == {NoMeta} \cup {Meta(line, "a.urdf") : line \in 1..MaxLine}

Cube(s) == Box(NoMeta, FloatTuple(<<s, s, s>>))

BoxCollision(meta, s) == Collision(meta, None, IdentityPose, Cube(s))

CylinderCollision ==
    Collision(NoMeta, Str("tube"), IdentityPose, Cylinder(NoMeta, Float(1), Float(2)))

BallVisual(meta) ==
    Visual(meta, IdentityPose, Sphere(meta, Float(1)),
           Material(NoMeta, Str("red"), FloatTuple(<<1, 0, 0, 1>>), None))

PointMass(meta, m) == Inertial(meta, IdentityPose, Float(m), ZeroInertia)

CollisionLists ==
    {<<>>}
    \cup {<<BoxCollision(NoMeta, s)>> : s \in Scalars}
    \cup {<<CylinderCollision>>}
    \cup {<<BoxCollision(NoMeta, 1)>> \o [i \in 1..n |-> CylinderCollision] :
            n \in 1..MaxExtraCollisions}

EmptyBase == Link(NoMeta, "base", None, <<>>, <<>>)

FullBase(meta) ==
    Link(meta, "base", PointMass(meta, 1), <<BoxCollision(meta, 1)>>, <<BallVisual(meta)>>)

BaseLinks ==
    {Link(NoMeta, "base", None, collisions, <<>>) : collisions \in CollisionLists}
    \cup {Link(NoMeta, "base", PointMass(NoMeta, m), <<>>, <<>>) : m \in Scalars}
    \cup {Link(NoMeta, "base", None, <<>>, <<BallVisual(NoMeta)>>)}
    \cup {FullBase(meta) : meta \in Metas}
    \cup {Link(Meta(line, "a.urdf"), "base", None,
               <<BoxCollision(Meta(line, "a.urdf"), 1)>>, <<>>) : line \in 1..MaxLine}

Arm == Link(NoMeta, "arm", None, <<>>, <<>>)

LinkDicts ==
    {<<>>}
    \cup {<<Entry("base", base)>> : base \in BaseLinks}
    \cup {<<Entry("arm", Arm), Entry("base", base)>> : base \in {EmptyBase, FullBase(NoMeta)}}
    \cup {<<Entry("base", base), Entry("arm", Arm)>> : base \in {EmptyBase, FullBase(NoMeta)}}

AxisX == FloatTuple(<<1, 0, 0>>)

AxisZ == FloatTuple(<<0, 0, 1>>)

Elbows ==
    {Joint(NoMeta, "elbow", "revolute", "base", "arm", IdentityPose, AxisX, None),
     Joint(NoMeta, "elbow", "revolute", "base", "arm", IdentityPose, AxisZ, None)}
    \cup {Joint(Meta(line, "a.urdf"), "elbow", "revolute", "base", "arm", IdentityPose, AxisX,
                Limit(Meta(line, "a.urdf"), Float(0), Float(1), Float(0), Float(0))) :
            line \in 1..MaxLine}

Wrist == Joint(NoMeta, "wrist", "fixed", "arm", "hand", IdentityPose, AxisX, None)

JointDicts ==
    {<<Entry("elbow", elbow)>> : elbow \in Elbows}
    \cup {<<Entry("wrist", Wrist), Entry("elbow", elbow)>> :
            elbow \in {Joint(NoMeta, "elbow", "revolute", "base", "arm", IdentityPose, AxisX, None)}}
    \cup {<<Entry("elbow", elbow), Entry("wrist", Wrist)>> :
            elbow \in {Joint(NoMeta, "elbow", "revolute", "base", "arm", IdentityPose, AxisX, None)}}

Robots ==
    {Robot("robot", links, <<>>) : links \in LinkDicts}
    \cup {Robot("robot", links, joints) :
            links \in {<<Entry("base", EmptyBase), Entry("arm", Arm)>>,
                       <<Entry("arm", Arm), Entry("base", FullBase(NoMeta))>>,
                       <<Entry("arm", Arm)>>},
            joints \in JointDicts}

Unused == "unused"

-----------------------------------------------------------------------------
(* The diff engine called on two parsed robots *)

Init ==
    /\ old_robot \in Robots
    /\ new_robot \in Robots
    /\ excluded_categories = ExcludedNone
    /\ float_tol = DefaultTol
    /\ result = None
    /\ pc = "call"
    /\ old_value = Unused /\ new_value = Unused /\ path = Unused
    /\ fmt = Unused /\ doc = Unused

\* cli.py line 72: diff = compare_robots(old_robot, new_robot, exclude, float_tol)
CompareRobots ==
    /\ pc = "call"
    /\ \E excluded \in ExcludedInputs, tol \in Tols :
        /\ excluded_categories' = excluded
        /\ float_tol' = tol
        /\ result' = compare_robots(old_robot, new_robot, excluded, tol)
    /\ pc' = "done"
    /\ UNCHANGED <<old_robot, new_robot, old_value, new_value, path, fmt, doc>>

Next == CompareRobots

Spec == Init /\ [][Next]_vars

-----------------------------------------------------------------------------
(* Properties of the diff engine *)

Done == pc = "done"

\* The categories the call filters by.
ActiveCategories == IF Truthy(excluded_categories) THEN excluded_categories.cats ELSE {}

\* The diff of the two inputs before any filtering.
Unfiltered == unfiltered_diff(old_robot, new_robot, float_tol)

Statuses(item_diffs_) == {item_diffs_[i].val.status : i \in 1..Len(item_diffs_)}

ChangePaths(item_diffs_) ==
    UNION {Keys(item_diffs_[i].val.changes) : i \in 1..Len(item_diffs_)}

C1_RobotA == Robot("robot", <<Entry("base", EmptyBase)>>, <<>>)

C1_RobotB ==
    Robot("robot",
          <<Entry("base", Link(NoMeta, "base", None, <<BoxCollision(NoMeta, 1)>>, <<>>))>>,
          <<>>)

\* C1: comparing a link 'base' without collisions with the same link holding one
\* Box collision of size (1,1,1) gives link_diffs['base'] = modified with exactly
\* the one change {'collisions': Change(0, 1)}.
C1_OnlyCollisionsChange ==
    (Done /\ old_robot = C1_RobotA /\ new_robot = C1_RobotB /\ ActiveCategories = {})
        => /\ HasKey(result.link_diffs, "base")
           /\ DictGet(result.link_diffs, "base") =
                ItemDiff("base", "modified",
                         <<Entry("collisions", Change(PyInt(0), PyInt(1)))>>)

\* C2: reflexivity: comparing a robot with itself, with no excluded categories and
\* any tolerance, gives no link diff and no joint diff.
C2_Reflexive ==
    (Done /\ old_robot = new_robot /\ ActiveCategories = {})
        => result.link_diffs = <<>> /\ result.joint_diffs = <<>>

C2_Witness ==
    /\ Done /\ old_robot = new_robot /\ ActiveCategories = {}
    /\ Len(old_robot.links) = 2 /\ Len(old_robot.joints) = 2
    /\ float_tol # DefaultTol

AddedRemovedRecorded(old_items, new_items, item_diffs_) ==
    \A name \in all_names(old_items, new_items) :
        /\ ~HasKey(old_items, name) =>
              /\ HasKey(item_diffs_, name)
              /\ DictGet(item_diffs_, name) = ItemDiff(name, "added", <<>>)
        /\ ~HasKey(new_items, name) =>
              /\ HasKey(item_diffs_, name)
              /\ DictGet(item_diffs_, name) = ItemDiff(name, "removed", <<>>)

RECURSIVE IsSortedFrom(_, _)
\* The keys from position i on ascend strictly in str order.
IsSortedFrom(keys, i) ==
    i >= Len(keys) \/ (StrLess(keys[i], keys[i + 1]) /\ IsSortedFrom(keys, i + 1))

ReverseDict(d) == [i \in 1..Len(d) |-> d[Len(d) + 1 - i]]

\* The same robot with its two mappings filled in the opposite order.
ReverseRobot(robot) == Robot(robot.name, ReverseDict(robot.links), ReverseDict(robot.joints))

\* C5: the keys of link_diffs and of joint_diffs are in sorted name order, filtered
\* or not, and the result does not depend on the insertion order of the inputs.
C5_SortedKeys ==
    Done => /\ IsSortedFrom(KeyList(result.link_diffs), 1)
            /\ IsSortedFrom(KeyList(result.joint_diffs), 1)
            /\ result = compare_robots(ReverseRobot(old_robot), ReverseRobot(new_robot),
                                       excluded_categories, float_tol)

C5_Witness ==
    /\ Done /\ ActiveCategories # {}
    /\ KeyList(old_robot.links) = <<"base", "arm">>
    /\ KeyList(old_robot.joints) = <<"wrist", "elbow">>
    /\ KeyList(result.link_diffs) = <<"arm", "base">>
    /\ KeyList(result.joint_diffs) = <<"elbow", "wrist">>

UnmodifiedEntries(item_diffs_) ==
    {item_diffs_[i] : i \in {j \in 1..Len(item_diffs_) : item_diffs_[j].val.status # "modified"}}

\* C6: with kinematic excluded the result has no joint diff and no added or removed
\* link diff; without it, every joint diff and every added or removed link diff of
\* the unfiltered diff is in the result unchanged.
C6_Kinematic ==
    Done => IF "kinematic" \in ActiveCategories
            THEN /\ result.joint_diffs = <<>>
                 /\ Statuses(result.link_diffs) \subseteq {"modified"}
            ELSE /\ result.joint_diffs = Unfiltered.joint_diffs
                 /\ \A e \in UnmodifiedEntries(Unfiltered.link_diffs) :
                        /\ HasKey(result.link_diffs, e.key)
                        /\ DictGet(result.link_diffs, e.key) = e.val
                 /\ UnmodifiedEntries(result.link_diffs)
                        = UnmodifiedEntries(Unfiltered.link_diffs)

C6_Witness ==
    /\ Done /\ ActiveCategories = {"kinematic", "visual"}
    /\ Unfiltered.joint_diffs # <<>>
    /\ "added" \in Statuses(Unfiltered.link_diffs)
    /\ "modified" \in Statuses(result.link_diffs)

\* The changes of one item whose path has no excluded category as a substring.
SurvivingPaths(changes, cats) ==
    {p \in Keys(changes) : \A category \in cats : ~Contains(p, category)}

\* C7: after filtering with a non-empty set, a modified link keeps exactly the
\* changes whose path contains no excluded category, with their values and order;
\* a link left without changes is absent, and no modified item has no changes.
C7_PrunedChanges ==
    (Done /\ ActiveCategories # {})
        => /\ \A i \in 1..Len(Unfiltered.link_diffs) :
                LET e == Unfiltered.link_diffs[i]
                    kept == SurvivingPaths(e.val.changes, ActiveCategories)
                IN  e.val.status = "modified" =>
                      IF kept = {} THEN ~HasKey(result.link_diffs, e.key)
                      ELSE /\ HasKey(result.link_diffs, e.key)
                           /\ LET got == DictGet(result.link_diffs, e.key)
                              IN  /\ got.status = "modified" /\ got.name = e.val.name
                                  /\ Keys(got.changes) = kept
                                  /\ \A p \in kept : DictGet(got.changes, p)
                                                       = DictGet(e.val.changes, p)
                                  /\ Len(got.changes) = Cardinality(kept)
           /\ \A i \in 1..Len(result.link_diffs) :
                result.link_diffs[i].val.status = "modified"
                    => result.link_diffs[i].val.changes # <<>>
           /\ \A i \in 1..Len(result.joint_diffs) :
                result.joint_diffs[i].val.status = "modified"
                    => result.joint_diffs[i].val.changes # <<>>

C7_Witness ==
    /\ Done /\ ActiveCategories = {"inertial", "visual"}
    /\ HasKey(Unfiltered.link_diffs, "base") /\ HasKey(result.link_diffs, "base")
    /\ Len(DictGet(result.link_diffs, "base").changes) >= 1
    /\ Len(DictGet(result.link_diffs, "base").changes)
          < Len(DictGet(Unfiltered.link_diffs, "base").changes)
    /\ \E other \in Robots :
          LET d == unfiltered_diff(old_robot, other, float_tol)
          IN  /\ HasKey(d.link_diffs, "base")
              /\ SurvivingPaths(DictGet(d.link_diffs, "base").changes, ActiveCategories) = {}

\* C8: filtering by the empty set leaves the diff as it is, and filtering by all
\* four categories leaves no link diff and no joint diff.
C8_EmptyAndFullFilter ==
    Done => /\ filter_diff_by_categories(Unfiltered, {}) = Unfiltered
            /\ excluded_categories = Excluded({}) => result = Unfiltered
            /\ ActiveCategories = Categories
                  => result.link_diffs = <<>> /\ result.joint_diffs = <<>>

C8_Witness ==
    /\ Done /\ ActiveCategories = Categories
    /\ "modified" \in Statuses(Unfiltered.link_diffs)
    /\ {"modified", "removed"} \subseteq Statuses(Unfiltered.joint_diffs)
    /\ result.link_diffs = <<>>

RECURSIVE StripValue(_)
\* The value with every provenance field of every nested entity set to None.
StripValue(v) ==
    IF v.k = "dc"
    THEN Val("dc", 0, v.s,
             [i \in 1..Len(v.items) |->
                IF DataclassFields(v.s)[i].compare THEN StripValue(v.items[i]) ELSE None])
    ELSE IF v.k \in {"list", "tuple"}
    THEN Val(v.k, 0, "", [i \in 1..Len(v.items) |-> StripValue(v.items[i])])
    ELSE v

StripDict(d) == [i \in 1..Len(d) |-> Entry(d[i].key, StripValue(d[i].val))]

StripRobot(robot) == Robot(robot.name, StripDict(robot.links), StripDict(robot.joints))

\* Keys, names, statuses and change paths of item diffs, without the values.
Shape(item_diffs_) ==
    [i \in 1..Len(item_diffs_) |->
        [key |-> item_diffs_[i].key,
         name |-> item_diffs_[i].val.name,
         status |-> item_diffs_[i].val.status,
         paths |-> KeyList(item_diffs_[i].val.changes)]]

ProvenanceNames == {"_line_number", "_source_path", "_source_file"}

\* C9: the item diffs, statuses and change paths are those of the same robots with
\* all provenance removed, and no change path names a provenance field.
C9_ProvenanceIgnored ==
    Done => LET bare == compare_robots(StripRobot(old_robot), StripRobot(new_robot),
                                       excluded_categories, float_tol)
            IN  /\ Shape(result.link_diffs) = Shape(bare.link_diffs)
                /\ Shape(result.joint_diffs) = Shape(bare.joint_diffs)
                /\ \A p \in ChangePaths(result.link_diffs) \cup ChangePaths(result.joint_diffs) :
                      \A f \in ProvenanceNames : ~Contains(p, f)

C9_Witness ==
    /\ Done /\ ActiveCategories = {}
    /\ old_robot # StripRobot(old_robot) /\ new_robot = StripRobot(new_robot)
    /\ HasKey(result.joint_diffs, "elbow")
    /\ DictGet(result.joint_diffs, "elbow").status = "modified"
    /\ DictGet(old_robot.joints, "elbow") # StripValue(DictGet(old_robot.joints, "elbow"))
    /\ "modified" \in Statuses(result.link_diffs)

-----------------------------------------------------------------------------
(* compare_values called on two values *)

MaxAbsFloat == 10

FloatInputs == {Float(n) : n \in (-MaxAbsFloat)..MaxAbsFloat}

ValueInputs == FloatInputs \cup {None, Str("base"), PyInt(1)}

ValueTols == {Tol(0, 1), DefaultTol, Tol(1, 10), Tol(1, 2), Tol(1, 1), Tol(2, 1)}

InitValues ==
    /\ old_value \in ValueInputs
    /\ new_value \in ValueInputs
    /\ path \in {"", "mass"}
    /\ float_tol = DefaultTol
    /\ result = None
    /\ pc = "call"
    /\ old_robot = Unused /\ new_robot = Unused /\ excluded_categories = Unused
    /\ fmt = Unused /\ doc = Unused

\* diff.py lines 109, 122, 133, 202, 216: compare_values(old, new, path, float_tol)
CompareValues ==
    /\ pc = "call"
    /\ \E tol \in ValueTols :
        /\ float_tol' = tol
        /\ result' = compare_values(old_value, new_value, path, tol)
    /\ pc' = "done"
    /\ UNCHANGED <<old_robot, new_robot, excluded_categories,
                   old_value, new_value, path, fmt, doc>>

NextValues == CompareValues

SpecValues == InitValues /\ [][NextValues]_vars

Max(a, b) == IF a >= b THEN a ELSE b

\* |a - b| <= tol * max(|a|, |b|)
WithinRelative(a, b, tol) == Abs(a - b) * tol.den <= tol.num * Max(Abs(a), Abs(b))

\* C4: two floats give no change iff |a-b| <= t * max(|a|,|b|) and otherwise exactly
\* one change at the current path; zero against non-zero is a change for every t < 1.
C4_RelativeTolerance ==
    (Done /\ old_value.k = "float" /\ new_value.k = "float")
        => /\ result = IF WithinRelative(old_value.n, new_value.n, float_tol)
                       THEN <<>>
                       ELSE <<Entry(path, Change(old_value, new_value))>>
           /\ ((old_value.n = 0) # (new_value.n = 0) /\ float_tol.num < float_tol.den)
                 => result # <<>>

C4_Witness ==
    /\ Done /\ old_value = Float(9) /\ new_value = Float(10)
    /\ float_tol = Tol(1, 10) /\ path = "mass"
    /\ result = <<>>

-----------------------------------------------------------------------------
(* parsers.py: what parse() returns or raises *)

ParseOk(robot) == [ok |-> TRUE, error |-> "", robot |-> robot]

Raise(error) == [ok |-> FALSE, error |-> error, robot |-> Robot("", <<>>, <<>>)]

\* A loop's outcome: the dict built so far, or the error raised.
LoopOk(items) == [ok |-> TRUE, error |-> "", items |-> items]

LoopRaise(error) == [ok |-> FALSE, error |-> error, items |-> <<>>]

\* parsers.py lines 50-69: XMLParser._load_and_validate
load_and_validate(file) ==
    IF ~file.xml_exists THEN "FileNotFoundError: XML file not found"
    ELSE IF ~file.xsd_exists THEN "FileNotFoundError: XSD schema not found"
    ELSE IF ~file.well_formed THEN "XMLSyntaxError"
    ELSE IF ~file.schema_valid THEN "DocumentInvalid"
    ELSE ""

\* lxml getpath(): the i-th of n sibling elements with one tag
XPath(parent, tag, i, n) ==
    IF n = 1 THEN parent \o "/" \o tag
    ELSE parent \o "/" \o tag \o "[" \o ToString(i) \o "]"

\* parsers.py lines 117-130: XMLParser._get_source_metadata
get_source_metadata(line, xpath, file) == <<PyInt(line), Str(xpath), Str(file.name)>>

\* Pose(), (1.0, 0.0, 0.0), None: what an element without children resolves to
DefaultAxis == FloatTuple(<<1, 0, 0>>)

\* parsers.py lines 223-229: the Link of a link element without children
urdf_link(doc_, i) ==
    Link(get_source_metadata(doc_.links[i].line,
                             XPath("/robot", "link", i, Len(doc_.links)), doc_.file),
         doc_.links[i].name, None, <<>>, <<>>)

RECURSIVE urdf_parse_links(_, _, _)
\* parsers.py lines 199-231: URDFParser._parse_links, from element i on
urdf_parse_links(doc_, i, links) ==
    IF i > Len(doc_.links) THEN LoopOk(links)
    ELSE LET name == doc_.links[i].name
         IN  IF HasKey(links, name)
             THEN LoopRaise("ValueError: Duplicate link name: '" \o name \o "'")
             ELSE urdf_parse_links(doc_, i + 1, DictSet(links, name, urdf_link(doc_, i)))

\* parsers.py lines 402-420: the Joint of a joint element with parent and child only
urdf_joint(doc_, i) ==
    Joint(get_source_metadata(doc_.joints[i].line,
                              XPath("/robot", "joint", i, Len(doc_.joints)), doc_.file),
          doc_.joints[i].name, doc_.joints[i].type,
          doc_.joints[i].parent, doc_.joints[i].child,
          IdentityPose, DefaultAxis, None)

RECURSIVE urdf_parse_joints(_, _, _)
\* parsers.py lines 382-422: URDFParser._parse_joints, from element i on
urdf_parse_joints(doc_, i, joints) ==
    IF i > Len(doc_.joints) THEN LoopOk(joints)
    ELSE LET name == doc_.joints[i].name
         IN  IF HasKey(joints, name)
             THEN LoopRaise("ValueError: Duplicate joint name: '" \o name \o "'")
             ELSE urdf_parse_joints(doc_, i + 1, DictSet(joints, name, urdf_joint(doc_, i)))

\* parsers.py lines 140-155: URDFParser.parse
urdf_parse(doc_) ==
    LET failed == load_and_validate(doc_.file)
        links == urdf_parse_links(doc_, 1, <<>>)
        joints == urdf_parse_joints(doc_, 1, <<>>)
    IN  IF failed # "" THEN Raise(failed)
        ELSE IF ~links.ok THEN Raise(links.error)
        ELSE IF ~joints.ok THEN Raise(joints.error)
        ELSE ParseOk(Robot(doc_.name, links.items, joints.items))

\* A pose element is absent, or has a relative_to attribute ("" when not written)
\* and text that is the identity or not.
NoPose == [present |-> FALSE, relative_to |-> "", identity |-> TRUE]

PoseElem(relative_to, identity) ==
    [present |-> TRUE, relative_to |-> relative_to, identity |-> identity]

\* sdf_pose_mismatch that only asks for a pose element.
sdf_pose_missing(pose, expected) == ~pose.present

\* parsers.py lines 530-532: pose_elem is None or pose_elem.get("relative_to") != parent
sdf_pose_mismatch(pose, expected) == ~pose.present \/ pose.relative_to # expected

\* parsers.py lines 534-547: the Joint of a joint element with an empty pose
sdf_joint(doc_, i) ==
    Joint(get_source_metadata(doc_.joints[i].line,
                              XPath("/sdf/model", "joint", i, Len(doc_.joints)), doc_.file),
          doc_.joints[i].name, doc_.joints[i].type,
          doc_.joints[i].parent, doc_.joints[i].child,
          IdentityPose, DefaultAxis, None)

RECURSIVE sdf_parse_joints(_, _, _)
\* parsers.py lines 505-549: SDFParser._parse_joints, from element i on
sdf_parse_joints(doc_, i, joints) ==
    IF i > Len(doc_.joints) THEN LoopOk(joints)
    ELSE LET name == doc_.joints[i].name
             parent == doc_.joints[i].parent
         IN  IF HasKey(joints, name)
             THEN LoopRaise("ValueError: Duplicate joint name: '" \o name \o "'")
             ELSE IF sdf_pose_mismatch(doc_.joints[i].pose, parent)
             THEN LoopRaise("ValueError: Joint '" \o name
                            \o "' pose must have relative_to='" \o parent \o "'")
             ELSE sdf_parse_joints(doc_, i + 1, DictSet(joints, name, sdf_joint(doc_, i)))

\* sdf_parent_joint that takes the last joint whose child is the link.
sdf_parent_joint_last(joints, name) ==
    LET found == {i \in 1..Len(joints) : joints[i].val.items[7] = Str(name)}
    IN  IF found = {} THEN ""
        ELSE joints[CHOOSE i \in found : \A j \in found : i >= j].key

\* parsers.py line 572: the first joint whose child is the link, "" for None
sdf_parent_joint(joints, name) ==
    LET found == {i \in 1..Len(joints) : joints[i].val.items[7] = Str(name)}
    IN  IF found = {} THEN ""
        ELSE joints[CHOOSE i \in found : \A j \in found : i <= j].key

\* parsers.py lines 582-592: the Link of a link element with at most a pose
sdf_link(doc_, i) ==
    Link(get_source_metadata(doc_.links[i].line,
                             XPath("/sdf/model", "link", i, Len(doc_.links)), doc_.file),
         doc_.links[i].name, None, <<>>, <<>>)

RECURSIVE sdf_parse_links(_, _, _, _)
\* parsers.py lines 551-594: SDFParser._parse_links, from element i on
sdf_parse_links(doc_, joints, i, links) ==
    IF i > Len(doc_.links) THEN LoopOk(links)
    ELSE LET name == doc_.links[i].name
             parent_joint == sdf_parent_joint(joints, name)
         IN  IF HasKey(links, name)
             THEN LoopRaise("ValueError: Duplicate link name: '" \o name \o "'")
             ELSE IF parent_joint # "" /\ sdf_pose_mismatch(doc_.links[i].pose, parent_joint)
             THEN LoopRaise("ValueError: Link '" \o name
                            \o "' pose must have relative_to='" \o parent_joint \o "'")
             ELSE IF doc_.links[i].pose.present /\ ~doc_.links[i].pose.identity
             THEN LoopRaise("ValueError: Link '" \o name \o "' pose must be the identity")
             ELSE sdf_parse_links(doc_, joints, i + 1,
                                  DictSet(links, name, sdf_link(doc_, i)))

\* parsers.py lines 488-503: SDFParser.parse
sdf_parse(doc_) ==
    LET failed == load_and_validate(doc_.file)
        joints == sdf_parse_joints(doc_, 1, <<>>)
        links == sdf_parse_links(doc_, joints.items, 1, <<>>)
    IN  IF failed # "" THEN Raise(failed)
        ELSE IF ~joints.ok THEN Raise(joints.error)
        ELSE IF ~links.ok THEN Raise(links.error)
        ELSE ParseOk(Robot(doc_.name, links.items, joints.items))

-----------------------------------------------------------------------------
(* parsers.py: MJCFParser, bodies without an inertial or geoms *)

\* A body element: name ("" when the attribute is absent), its joint child
\* (kind "none", "freejoint" or "joint"; name "" when absent) and nested bodies.
Body(name, line, xpath, joint, children) ==
    [name |-> name, line |-> line, xpath |-> xpath, joint |-> joint,
     children |-> children]

JointElem(kind, name) == [kind |-> kind, name |-> name]

\* dict.get(key, default) on an attribute that is "" when absent
GetAttr(value, default) == IF value # "" THEN value ELSE default

\* parsers.py lines 1273-1299: _parse_origin of a body without pos, quat or euler
mjcf_body_origin(body, file) ==
    Pose(get_source_metadata(body.line, body.xpath, file),
         FloatTuple(<<0, 0, 0>>), FloatTuple(<<1, 0, 0, 0>>))

\* parsers.py lines 1030-1050: MJCFParser._create_link
mjcf_create_link(body, file) ==
    Link(get_source_metadata(body.line, body.xpath, file), body.name, None, <<>>, <<>>)

\* parsers.py lines 1202-1271: MJCFParser._create_joint
mjcf_create_joint(body, parent_name, child_name, file) ==
    LET elem_meta == get_source_metadata(body.line + 1,
                                         body.xpath \o "/" \o body.joint.kind, file)
    IN  IF body.joint.kind = "freejoint" THEN
            Joint(elem_meta, GetAttr(body.joint.name, child_name \o "_freejoint"),
                  "floating", parent_name, child_name,
                  mjcf_body_origin(body, file), DefaultAxis, None)
        ELSE IF body.joint.kind = "joint" THEN
            Joint(elem_meta, GetAttr(body.joint.name, child_name \o "_joint"),
                  "revolute", parent_name, child_name,
                  mjcf_body_origin(body, file), FloatTuple(<<0, 0, 1>>),
                  Limit(elem_meta, Float(0), Float(0), Float(0), Float(0)))
        ELSE
            Joint(get_source_metadata(body.line, body.xpath, file),
                  child_name \o "_fixed", "fixed", parent_name, child_name,
                  mjcf_body_origin(body, file), DefaultAxis, None)

\* The name attribute of a Joint value.
JointName(joint) == joint.items[4].s

RECURSIVE mjcf_parse_bodies(_, _, _, _, _)
\* parsers.py lines 1008-1028: MJCFParser._parse_bodies, from body i of the parent
\* element on; parent_body_name is "" for the worldbody; acc holds links and joints.
mjcf_parse_bodies(bodies, i, parent_body_name, acc, file) ==
    IF i > Len(bodies) THEN acc
    ELSE LET body == bodies[i]
             joint == mjcf_create_joint(body, parent_body_name, body.name, file)
             links == DictSet(acc.links, body.name, mjcf_create_link(body, file))
             joints == IF parent_body_name # ""
                       THEN DictSet(acc.joints, JointName(joint), joint)
                       ELSE acc.joints
         IN  IF body.name # ""
             THEN mjcf_parse_bodies(bodies, i + 1, parent_body_name,
                    mjcf_parse_bodies(body.children, 1, body.name,
                                      [links |-> links, joints |-> joints], file),
                    file)
             ELSE mjcf_parse_bodies(bodies, i + 1, parent_body_name, acc, file)

\* parsers.py lines 818-839: MJCFParser.parse, a document without assets or defaults
mjcf_parse(doc_) ==
    LET failed == load_and_validate(doc_.file)
        built == mjcf_parse_bodies(doc_.bodies, 1, "",
                                   [links |-> <<>>, joints |-> <<>>], doc_.file)
    IN  IF failed # "" THEN Raise(failed)
        ELSE ParseOk(Robot(doc_.name, built.links, built.joints))

-----------------------------------------------------------------------------
(* parsers.py: IsaacUSDParser, link prims without mass, collisions or visuals *)

\* str(prim.GetPath()) of a prim below the default prim
PrimPath(doc_, prim) == "/" \o doc_.name \o "/" \o prim.scope \o "/" \o prim.name

\* parsers.py lines 1319-1332: USDParser._get_source_metadata
usd_source_metadata(doc_, prim) == <<None, Str(PrimPath(doc_, prim)), Str(doc_.file.name)>>

RECURSIVE usd_parse_links(_, _, _)
\* parsers.py lines 1368-1403: IsaacUSDParser._parse_links, from target i on
usd_parse_links(doc_, i, links) ==
    IF i > Len(doc_.links) THEN links
    ELSE usd_parse_links(doc_, i + 1,
            DictSet(links, doc_.links[i].name,
                    Link(usd_source_metadata(doc_, doc_.links[i]), doc_.links[i].name,
                         None, <<>>, <<>>)))

\* parsers.py lines 1614-1651: the joint types that are kept
UsdJointTypes == {"PhysicsRevoluteJoint", "PhysicsPrismaticJoint", "PhysicsFixedJoint"}

\* parsers.py lines 1647-1662: the Joint of a PhysicsFixedJoint prim on axis X
usd_joint(doc_, prim) ==
    Joint(usd_source_metadata(doc_, prim), prim.name, "fixed", prim.body0, prim.body1,
          IdentityPose, FloatTuple(<<1, 0, 0>>), None)

RECURSIVE usd_parse_joints(_, _, _)
\* parsers.py lines 1568-1666: IsaacUSDParser._parse_joints, from target i on
usd_parse_joints(doc_, i, joints) ==
    IF i > Len(doc_.joints) THEN joints
    ELSE IF doc_.joints[i].type \notin UsdJointTypes
    THEN usd_parse_joints(doc_, i + 1, joints)
    ELSE usd_parse_joints(doc_, i + 1,
            DictSet(joints, doc_.joints[i].name, usd_joint(doc_, doc_.joints[i])))

\* parsers.py lines 1342-1366: IsaacUSDParser.parse
usd_parse(doc_) ==
    IF ~doc_.file.exists THEN Raise("FileNotFoundError: USD file not found")
    ELSE IF ~doc_.file.has_default_prim
    THEN Raise("ValueError: No default prim found in USD stage")
    ELSE ParseOk(Robot(doc_.name, usd_parse_links(doc_, 1, <<>>),
                       usd_parse_joints(doc_, 1, <<>>)))

\* cli.py lines 18-39 and 69-70: _get_parser(path).parse()
parse(format, doc_) ==
    CASE format = "urdf" -> urdf_parse(doc_)
      [] format = "sdf"  -> sdf_parse(doc_)
      [] format = "mjcf" -> mjcf_parse(doc_)
      [] format = "usd"  -> usd_parse(doc_)

-----------------------------------------------------------------------------
(* Documents: the inputs of the parsers *)

MaxElements == 2

MaxBodies == 2

\* What _load_and_validate can find on disk: each of its four checks can fail.
XmlFiles(name) ==
    {[name |-> name, xml_exists |-> e, xsd_exists |-> x, well_formed |-> w,
      schema_valid |-> v] : e \in BOOLEAN, x \in BOOLEAN, w \in BOOLEAN, v \in BOOLEAN}

\* The name attributes of up to MaxElements elements of one tag, in document order.
NameSeqs(names) == UNION {[1..n -> names] : n \in 0..MaxElements}

LinkElems(names, first_line, pose) ==
    [i \in 1..Len(names) |-> [name |-> names[i], line |-> first_line + i, pose |-> pose]]

JointElems(names, first_line, parent, child, pose) ==
    [i \in 1..Len(names) |->
        [name |-> names[i], line |-> first_line + i, type |-> "fixed",
         parent |-> parent, child |-> child, pose |-> pose]]

URDFDocs ==
    {[file |-> f, name |-> "arm",
      links |-> LinkElems(ln, 1, NoPose),
      joints |-> JointElems(jn, 1 + Len(ln), "a", "b", NoPose)] :
        f \in XmlFiles("arm.urdf"), ln \in NameSeqs({"a", "b"}), jn \in NameSeqs({"j", "k"})}

\* The pose of a joint element that fails the relative_to test: no pose
\* element, no relative_to attribute, or the name of another frame.
WrongJointPoses == {NoPose, PoseElem("", TRUE), PoseElem("b", TRUE)}

\* At most one joint of the document (number wrong, 0 for none) has a wrong pose.
JointPoseChoices(n) ==
    {[i \in 1..n |-> PoseElem("a", TRUE)]}
    \cup {[i \in 1..n |-> IF i = wrong THEN p ELSE PoseElem("a", TRUE)] :
            wrong \in 1..n, p \in WrongJointPoses}

SDFJointElems(names, first_line, poses) ==
    [i \in 1..Len(names) |->
        [name |-> names[i], line |-> first_line + i, type |-> "fixed",
         parent |-> "a", child |-> "b", pose |-> poses[i]]]

\* A link takes the name of its first parent joint as relative_to when there is one.
SDFDocs ==
    UNION {
      {[file |-> f, name |-> "arm",
        links |-> [i \in 1..Len(ln) |->
                      [name |-> ln[i], line |-> 2 + i,
                       pose |-> IF ln[i] = "b" /\ Len(jn) > 0
                                THEN PoseElem(jn[1], TRUE) ELSE NoPose]],
        joints |-> SDFJointElems(jn, 2 + Len(ln), jp)] :
          f \in XmlFiles("arm.sdf"), ln \in NameSeqs({"a", "b"}),
          jp \in JointPoseChoices(Len(jn))} :
      jn \in NameSeqs({"j", "k"})}

BodyNames == {"", "a", "b"}

JointElems_MJCF ==
    {JointElem("none", ""), JointElem("freejoint", ""), JointElem("joint", ""),
     JointElem("joint", "a_fixed")}

BodySeqs == UNION {[1..n -> BodyNames \X JointElems_MJCF] : n \in 0..MaxBodies}

\* worldbody > base > the bodies of cfg, side by side
SiblingBodies(cfg) ==
    <<Body("base", 3, "/mujoco/worldbody/body", JointElem("none", ""),
           [i \in 1..Len(cfg) |->
               Body(cfg[i][1], 2 + 2 * i,
                    XPath("/mujoco/worldbody/body", "body", i, Len(cfg)),
                    cfg[i][2], <<>>)])>>

\* worldbody > base > first > second
ChainedBodies(first, second) ==
    <<Body("base", 3, "/mujoco/worldbody/body", JointElem("none", ""),
           <<Body(first[1], 4, "/mujoco/worldbody/body/body", first[2],
                  <<Body(second[1], 6, "/mujoco/worldbody/body/body/body",
                         second[2], <<>>)>>)>>)>>

MJCFDocs ==
    {[file |-> f, name |-> "arm", bodies |-> b] :
        f \in XmlFiles("arm.xml"),
        b \in {SiblingBodies(cfg) : cfg \in BodySeqs}
              \cup {ChainedBodies(c, d) : c, d \in BodyNames \X JointElems_MJCF}}

UsdFiles ==
    {[name |-> "arm.usda", exists |-> e, has_default_prim |-> d] :
        e \in BOOLEAN, d \in BOOLEAN}

\* Sequences of prims at pairwise different paths: a stage holds one prim per path.
DistinctPaths(prims) == \A i, j \in 1..Len(prims) :
    (prims[i].scope = prims[j].scope /\ prims[i].name = prims[j].name) => i = j

PrimSeqs(prims) ==
    {ps \in UNION {[1..n -> prims] : n \in 0..MaxElements} : DistinctPaths(ps)}

LinkPrims == {[scope |-> s, name |-> n] : s \in {"left", "right"}, n \in {"a", "b"}}

JointPrims ==
    {[scope |-> s, name |-> "j", type |-> t, body0 |-> "a", body1 |-> "b"] :
        s \in {"left", "right"}, t \in {"PhysicsFixedJoint", "PhysicsJoint"}}

USDDocs ==
    {[file |-> f, name |-> "arm", links |-> l, joints |-> j] :
        f \in UsdFiles, l \in PrimSeqs(LinkPrims), j \in PrimSeqs(JointPrims)}

InitParse ==
    /\ \/ fmt = "urdf" /\ doc \in URDFDocs
       \/ fmt = "sdf" /\ doc \in SDFDocs
       \/ fmt = "mjcf" /\ doc \in MJCFDocs
       \/ fmt = "usd" /\ doc \in USDDocs
    /\ result = None
    /\ pc = "call"
    /\ old_robot = Unused /\ new_robot = Unused /\ excluded_categories = Unused
    /\ float_tol = Unused /\ old_value = Unused /\ new_value = Unused /\ path = Unused

\* cli.py lines 69-70: one parser's parse() on its document
Parse ==
    /\ pc = "call"
    /\ result' = parse(fmt, doc)
    /\ pc' = "done"
    /\ UNCHANGED <<old_robot, new_robot, excluded_categories, float_tol,
                   old_value, new_value, path, fmt, doc>>

NextParse == Parse

SpecParse == InitParse /\ [][NextParse]_vars

-----------------------------------------------------------------------------
(* Duplicate names *)

\* A sequence of names holds one name twice.
HasDuplicates(names) == \E i, j \in 1..Len(names) : i < j /\ names[i] = names[j]

\* The document can be loaded: no check before the traversal fails.
Loads ==
    IF fmt = "usd" THEN doc.file.exists /\ doc.file.has_default_prim
    ELSE load_and_validate(doc.file) = ""

RECURSIVE NamedBodies(_, _)
\* The name attributes of the bodies that stand for links, in document order:
\* the named bodies below named bodies only.
NamedBodies(bodies, i) ==
    IF i > Len(bodies) THEN <<>>
    ELSE IF bodies[i].name = "" THEN NamedBodies(bodies, i + 1)
    ELSE <<bodies[i].name>> \o NamedBodies(bodies[i].children, 1)
         \o NamedBodies(bodies, i + 1)

RECURSIVE NamedJoints(_, _, _)
\* The name attributes written on joint elements of those bodies (bodies of the
\* worldbody have no joint in the Robot).
NamedJoints(bodies, i, nested) ==
    IF i > Len(bodies) THEN <<>>
    ELSE IF bodies[i].name = "" THEN NamedJoints(bodies, i + 1, nested)
    ELSE (IF nested /\ bodies[i].joint.name # "" THEN <<bodies[i].joint.name>> ELSE <<>>)
         \o NamedJoints(bodies[i].children, 1, TRUE)
         \o NamedJoints(bodies, i + 1, nested)

ElementNames(elems) == [i \in 1..Len(elems) |-> elems[i].name]

\* The names the document gives to its link elements.
LinkNames ==
    IF fmt = "mjcf" THEN NamedBodies(doc.bodies, 1) ELSE ElementNames(doc.links)

\* The names the document gives to its joint elements; a USD joint prim of an
\* unknown type is no joint.
JointNames ==
    IF fmt = "mjcf" THEN NamedJoints(doc.bodies, 1, FALSE)
    ELSE IF fmt = "usd"
    THEN ElementNames(SelectSeq(doc.joints, LAMBDA p : p.type \in UsdJointTypes))
    ELSE ElementNames(doc.joints)

Returned == Done /\ result.ok

\* C10: every parser fails on a document in which two links, or two joints,
\* carry the same name: whenever parse() returns a Robot, the names of the
\* document's link elements are pairwise different and so are the names of its
\* joint elements, so no element of the Robot replaced an earlier one.
C10_DuplicatesRejected ==
    Returned => ~HasDuplicates(LinkNames) /\ ~HasDuplicates(JointNames)

\* The dict-building parsers that do check: a URDF or SDF document with a
\* repeated name never yields a Robot.
C10_XmlChecked ==
    (Done /\ fmt \in {"urdf", "sdf"} /\ Loads
        /\ (HasDuplicates(LinkNames) \/ HasDuplicates(JointNames)))
    => ~result.ok

\* A Robot was returned with fewer links than the document has link elements.
C10_LinkReplaced ==
    Returned /\ HasDuplicates(LinkNames)
        /\ Len(result.robot.links) < Len(LinkNames)

-----------------------------------------------------------------------------
(* cli.py: _get_parser *)

\* str.rfind(c) + 1: the last position of character c in s, 0 when absent
RFind(s, c) ==
    LET found == {i \in 1..Len(s) : CharAt(s, i) = c}
    IN  IF found = {} THEN 0 ELSE CHOOSE i \in found : \A j \in found : j <= i

\* Path.name: the final component of the path
PathName(p) == SubSeq(p, RFind(p, "/") + 1, Len(p))

\* Path.suffix: the name from its last dot on, "" when the dot is the first or
\* the last character of the name or is absent
PathSuffix(p) ==
    LET name == PathName(p)
        i == RFind(name, ".")
    IN  IF 1 < i /\ i < Len(name) THEN SubSeq(name, i, Len(name)) ELSE ""

\* The parser constructed by _get_parser, or the error it raised.
Selected(parser) == [ok |-> TRUE, error |-> "", parser |-> parser]

Unsupported(suffix) ==
    [ok |-> FALSE, error |-> "ValueError: Unsupported file extension: " \o suffix,
     parser |-> ""]

\* get_parser with == ".usd" in place of the substring test.
get_parser_exact_usd(p) ==
    IF PathSuffix(p) = ".urdf" THEN Selected("URDFParser")
    ELSE IF PathSuffix(p) = ".sdf" THEN Selected("SDFParser")
    ELSE IF PathSuffix(p) = ".xml" THEN Selected("MJCFParser")
    ELSE IF PathSuffix(p) = ".usd" THEN Selected("IsaacUSDParser")
    ELSE Unsupported(PathSuffix(p))

\* cli.py lines 18-39: _get_parser
get_parser(p) ==
    IF PathSuffix(p) = ".urdf" THEN Selected("URDFParser")
    ELSE IF PathSuffix(p) = ".sdf" THEN Selected("SDFParser")
    ELSE IF PathSuffix(p) = ".xml" THEN Selected("MJCFParser")
    ELSE IF Contains(PathSuffix(p), ".usd") THEN Selected("IsaacUSDParser")
    ELSE Unsupported(PathSuffix(p))

Directories == {"", "models/", "robots.usd/", "v1.2/arm.urdf/"}

Stems == {"robot", "robot.urdf", "robot.usd", "arm.sdf", "", "scene.xml"}

Extensions ==
    {"", ".", ".urdf", ".sdf", ".xml", ".usd", ".usda", ".usdc", ".usdz",
     ".URDF", ".xacro", ".xusd", ".urdfx", ".sdformat", ".usd_old"}

ModelPaths == {d \o s \o e : d \in Directories, s \in Stems, e \in Extensions}

InitSelect ==
    /\ path \in ModelPaths
    /\ result = None
    /\ pc = "call"
    /\ old_robot = Unused /\ new_robot = Unused /\ excluded_categories = Unused
    /\ float_tol = Unused /\ old_value = Unused /\ new_value = Unused
    /\ fmt = Unused /\ doc = Unused

\* cli.py lines 69-70: _get_parser(old), before parse() is called on it
GetParser ==
    /\ pc = "call"
    /\ result' = get_parser(path)
    /\ pc' = "done"
    /\ UNCHANGED <<old_robot, new_robot, excluded_categories, float_tol,
                   old_value, new_value, path, fmt, doc>>

NextSelect == GetParser

SpecSelect == InitSelect /\ [][NextSelect]_vars

\* The parser the claim assigns to a suffix, "" for an unsupported one.
ParserOfSuffix(suffix) ==
    CASE suffix = ".urdf" -> "URDFParser"
      [] suffix = ".sdf" -> "SDFParser"
      [] suffix = ".xml" -> "MJCFParser"
      [] suffix \notin {".urdf", ".sdf", ".xml"} /\ Contains(suffix, ".usd") -> "IsaacUSDParser"
      [] OTHER -> ""

\* C11: the parser selected for a path is the one its suffix names (.urdf URDF,
\* .sdf SDF, .xml MJCF, a suffix containing .usd Isaac USD); any other suffix
\* raises an error and no parser is constructed; and two paths with the same
\* suffix get the same selection.
C11_SelectionBySuffix ==
    Done =>
        /\ result.parser = ParserOfSuffix(PathSuffix(path))
        /\ result.ok <=> ParserOfSuffix(PathSuffix(path)) # ""
        /\ ~result.ok => result.parser = "" /\ result.error # ""
        /\ \A q \in ModelPaths :
              PathSuffix(q) = PathSuffix(path) => get_parser(q) = result

\* A .usda file below a directory named like a URDF file selects the USD parser.
C11_Witness ==
    /\ Done
    /\ path = "v1.2/arm.urdf/robot.usda"
    /\ result = Selected("IsaacUSDParser")

-----------------------------------------------------------------------------
(* parsers.py: XMLParser._parse_vector *)

\* A call's outcome: the value returned, or the error raised.
Returns(value) == [ok |-> TRUE, error |-> "", value |-> value]

Raises(error) == [ok |-> FALSE, error |-> error, value |-> <<>>]

RECURSIVE SplitFrom(_, _, _)
\* str.split() on blanks: the tokens of s from position i on, token being the
\* characters read since the last blank
SplitFrom(s, i, token) ==
    IF i > Len(s) THEN (IF token = "" THEN <<>> ELSE <<token>>)
    ELSE IF CharAt(s, i) = " "
    THEN (IF token = "" THEN <<>> ELSE <<token>>) \o SplitFrom(s, i + 1, "")
    ELSE SplitFrom(s, i + 1, token \o CharAt(s, i))

\* vector.strip().split()
Split(s) == SplitFrom(s, 1, "")

Digits == "0123456789"

IsDigit(c) == \E d \in 1..Len(Digits) : CharAt(Digits, d) = c

DigitValue(c) == (CHOOSE d \in 1..Len(Digits) : CharAt(Digits, d) = c) - 1

\* An integer literal: an optional sign and at least one digit.
IsIntLiteral(token) ==
    LET body == IF Len(token) > 0 /\ CharAt(token, 1) \in {"-", "+"}
                THEN SubSeq(token, 2, Len(token)) ELSE token
    IN  Len(body) > 0 /\ \A i \in 1..Len(body) : IsDigit(CharAt(body, i))

RECURSIVE DigitsValue(_, _, _)
DigitsValue(s, i, acc) ==
    IF i > Len(s) THEN acc ELSE DigitsValue(s, i + 1, 10 * acc + DigitValue(CharAt(s, i)))

\* float(x) for an integer literal
ToFloat(token) ==
    IF CharAt(token, 1) = "-" THEN 0 - DigitsValue(token, 2, 0)
    ELSE IF CharAt(token, 1) = "+" THEN DigitsValue(token, 2, 0)
    ELSE DigitsValue(token, 1, 0)

\* parsers.py lines 71-88: XMLParser._parse_vector, on integer literals
parse_vector(vector, length) ==
    LET parts == Split(vector)
    IN  IF Len(parts) # length
        THEN Raises("ValueError: Expected " \o ToString(length)
                    \o " space-separated values, got " \o ToString(Len(parts)))
        ELSE IF \E i \in 1..Len(parts) : ~IsIntLiteral(parts[i])
        THEN Raises("ValueError: could not convert string to float")
        ELSE Returns([i \in 1..Len(parts) |-> ToFloat(parts[i])])

-----------------------------------------------------------------------------
(* parsers.py: MJCFParser default classes *)

\* An attribute dict maps names to str; get(key, default)
AttrGet(attrib, key, default) ==
    IF HasKey(attrib, key) THEN DictGetItem(attrib, key) ELSE default

\* elem.get(key) or default: an absent and an empty attribute both give way
GetOr(attrib, key, default) ==
    IF AttrGet(attrib, key, "") # "" THEN AttrGet(attrib, key, "") ELSE default

\* A child element of a default element: absent, or present with attributes.
NoElem == [present |-> FALSE, attrib |-> <<>>]

Elem(attrib) == [present |-> TRUE, attrib |-> attrib]

\* A default element: its class attribute ("" when absent), its geom and joint
\* children and its nested default elements.
Default(class, geom, joint, children) ==
    [class |-> class, geom |-> geom, joint |-> joint, children |-> children]

\* parsers.py lines 868-873: the class data of one default element
ClassData(default_elem, parent_class) ==
    [parent |-> parent_class,
     types |-> {t \in {"joint", "geom"} : default_elem[t].present},
     joint |-> default_elem.joint.attrib,
     geom |-> default_elem.geom.attrib]

RECURSIVE parse_defaults(_, _, _)
RECURSIVE parse_default_children(_, _, _, _)
\* parsers.py lines 859-878: MJCFParser._parse_defaults; parent_class "" is None
parse_defaults(default_elem, parent_class, classes) ==
    LET class_name == GetAttr(default_elem.class, "main")
    IN  parse_default_children(default_elem.children, 1, class_name,
            DictSet(classes, class_name, ClassData(default_elem, parent_class)))

\* parsers.py lines 876-878 and 855-856: the loop over nested default elements
parse_default_children(children, i, class_name, classes) ==
    IF i > Len(children) THEN classes
    ELSE parse_default_children(children, i + 1, class_name,
                                parse_defaults(children[i], class_name, classes))

\* parsers.py lines 841-857: MJCFParser._parse_classes on the nested default
\* elements of the top-level default element
parse_classes(default_elems) == parse_default_children(default_elems, 1, "", <<>>)

RECURSIVE get_class_defaults_root_wins(_, _, _)
\* get_class_defaults with the ancestors' values stacked over the class's own.
get_class_defaults_root_wins(classes, class_name, element_type) ==
    IF class_name = "" \/ ~HasKey(classes, class_name) THEN <<>>
    ELSE LET class_data == DictGetItem(classes, class_name)
             defaults == get_class_defaults_root_wins(classes, class_data.parent,
                                                      element_type)
         IN  IF element_type \in class_data.types
             THEN DictUpdate(class_data[element_type], defaults)
             ELSE defaults

RECURSIVE get_class_defaults(_, _, _)
\* parsers.py lines 880-902: MJCFParser._get_class_defaults
get_class_defaults(classes, class_name, element_type) ==
    IF class_name = "" \/ ~HasKey(classes, class_name) THEN <<>>
    ELSE LET class_data == DictGetItem(classes, class_name)
             defaults == get_class_defaults(classes, class_data.parent, element_type)
         IN  IF element_type \in class_data.types
             THEN DictUpdate(defaults, class_data[element_type])
             ELSE defaults

-----------------------------------------------------------------------------
(* parsers.py: MJCFParser geometry and joint attributes *)

\* A geom or joint element: its attributes, line and XPath.
Element(attrib, line, xpath) == [attrib |-> attrib, line |-> line, xpath |-> xpath]

\* parse_geometry with the half extents kept as they are.
parse_geometry_half(geom_elem, class_defaults, global_meshes, file) ==
    LET meta == get_source_metadata(geom_elem.line, geom_elem.xpath, file)
        mesh_name == AttrGet(geom_elem.attrib, "mesh", "")
        geom_type == GetOr(geom_elem.attrib, "type",
                           AttrGet(class_defaults, "type", "sphere"))
        size_str == GetOr(geom_elem.attrib, "size", AttrGet(class_defaults, "size", ""))
        box == parse_vector(size_str, 3)
        cylinder == parse_vector(size_str, 2)
        sphere == parse_vector(size_str, 1)
    IN  IF mesh_name # "" THEN Returns(DictGet(global_meshes, mesh_name))
        ELSE IF geom_type = "box" THEN
            IF size_str = "" THEN Returns(Box(meta, FloatTuple(<<0, 0, 0>>)))
            ELSE IF ~box.ok THEN Raises(box.error)
            ELSE Returns(Box(meta, FloatTuple([i \in 1..3 |-> box.value[i]])))
        ELSE IF geom_type = "cylinder" THEN
            IF size_str = "" THEN Returns(Cylinder(meta, Float(0), Float(0)))
            ELSE IF ~cylinder.ok THEN Raises(cylinder.error)
            ELSE Returns(Cylinder(meta, Float(cylinder.value[1]),
                                  Float(cylinder.value[2])))
        ELSE IF geom_type = "sphere" THEN
            IF size_str = "" THEN Returns(Sphere(meta, Float(0)))
            ELSE IF ~sphere.ok THEN Raises(sphere.error)
            ELSE Returns(Sphere(meta, Float(sphere.value[1])))
        ELSE Returns(None)

\* parsers.py lines 1128-1169: MJCFParser._parse_geometry
parse_geometry(geom_elem, class_defaults, global_meshes, file) ==
    LET meta == get_source_metadata(geom_elem.line, geom_elem.xpath, file)
        mesh_name == AttrGet(geom_elem.attrib, "mesh", "")
        geom_type == GetOr(geom_elem.attrib, "type",
                           AttrGet(class_defaults, "type", "sphere"))
        size_str == GetOr(geom_elem.attrib, "size", AttrGet(class_defaults, "size", ""))
        box == parse_vector(size_str, 3)
        cylinder == parse_vector(size_str, 2)
        sphere == parse_vector(size_str, 1)
    IN  IF mesh_name # "" THEN Returns(DictGet(global_meshes, mesh_name))
        ELSE IF geom_type = "box" THEN
            IF size_str = "" THEN Returns(Box(meta, FloatTuple(<<0, 0, 0>>)))
            ELSE IF ~box.ok THEN Raises(box.error)
            ELSE Returns(Box(meta, FloatTuple([i \in 1..3 |-> 2 * box.value[i]])))
        ELSE IF geom_type = "cylinder" THEN
            IF size_str = "" THEN Returns(Cylinder(meta, Float(0), Float(0)))
            ELSE IF ~cylinder.ok THEN Raises(cylinder.error)
            ELSE Returns(Cylinder(meta, Float(cylinder.value[1]),
                                  Float(2 * cylinder.value[2])))
        ELSE IF geom_type = "sphere" THEN
            IF size_str = "" THEN Returns(Sphere(meta, Float(0)))
            ELSE IF ~sphere.ok THEN Raises(sphere.error)
            ELSE Returns(Sphere(meta, Float(sphere.value[1])))
        ELSE Returns(None)

\* parsers.py line 1212: joint_types
joint_types ==
    <<Entry("hinge", "revolute"), Entry("slide", "prismatic"), Entry("ball", "continuous")>>

\* parsers.py lines 1230-1246: the type, axis and range of a joint element
joint_attributes(joint_elem, classes) ==
    LET class_name == AttrGet(joint_elem.attrib, "class", "")
        class_defaults == IF class_name # ""
                          THEN get_class_defaults(classes, class_name, "joint")
                          ELSE <<>>
        type_str == GetOr(joint_elem.attrib, "type",
                          AttrGet(class_defaults, "type", "hinge"))
        axis == parse_vector(GetOr(joint_elem.attrib, "axis",
                                   AttrGet(class_defaults, "axis", "0 0 1")), 3)
        range_vals == parse_vector(GetOr(joint_elem.attrib, "range",
                                         AttrGet(class_defaults, "range", "0 0")), 2)
    IN  IF ~HasKey(joint_types, type_str) THEN Raises("KeyError: " \o type_str)
        ELSE IF ~axis.ok THEN Raises(axis.error)
        ELSE IF ~range_vals.ok THEN Raises(range_vals.error)
        ELSE Returns([type |-> DictGetItem(joint_types, type_str),
                      axis |-> FloatTuple(axis.value),
                      lower |-> Float(range_vals.value[1]),
                      upper |-> Float(range_vals.value[2])])

\* parsers.py lines 1105-1111: the class defaults and geometry of one geom element
geom_geometry(geom_elem, classes, global_meshes, file) ==
    parse_geometry(geom_elem,
                   get_class_defaults(classes, AttrGet(geom_elem.attrib, "class", ""), "geom"),
                   global_meshes, file)

-----------------------------------------------------------------------------
(* Documents with default classes *)

Attrib(type, size) ==
    (IF type = "" THEN <<>> ELSE <<Entry("type", type)>>)
    \o (IF size = "" THEN <<>> ELSE <<Entry("size", size)>>)

\* The geom child of a nested default element.
GeomDefaults ==
    {NoElem, Elem(Attrib("sphere", "")), Elem(Attrib("box", "")),
     Elem(Attrib("", "2")), Elem(Attrib("", "1 2 3")), Elem(Attrib("cylinder", "2 3"))}

\* The geom child of the outermost class.
TopGeomDefaults == {NoElem, Elem(Attrib("sphere", "")), Elem(Attrib("box", "1 2 3"))}

JointAttrib(type, axis, range) ==
    (IF type = "" THEN <<>> ELSE <<Entry("type", type)>>)
    \o (IF axis = "" THEN <<>> ELSE <<Entry("axis", axis)>>)
    \o (IF range = "" THEN <<>> ELSE <<Entry("range", range)>>)

JointDefaults ==
    {NoElem, Elem(JointAttrib("slide", "", "")), Elem(JointAttrib("", "0 1 0", "")),
     Elem(JointAttrib("", "", "1 2")), Elem(JointAttrib("ball", "", "-1 1"))}

TopJointDefaults == {NoElem, Elem(JointAttrib("slide", "", "")),
                     Elem(JointAttrib("", "1 0 0", "-2 2"))}

\* default > collision > (mid > leaf, side): the nested default elements
DefaultTree(top, mid, leaf, side) ==
    <<Default("collision", top.geom, top.joint,
              <<Default("mid", mid.geom, mid.joint,
                        <<Default("leaf", leaf.geom, leaf.joint, <<>>)>>),
                Default("side", side.geom, side.joint, <<>>)>>)>>

GeomOnly(elems) == {[geom |-> g, joint |-> NoElem] : g \in elems}

JointOnly(elems) == {[geom |-> NoElem, joint |-> j] : j \in elems}

\* The outermost class carries defaults of the other element type as well.
GeomTrees ==
    {DefaultTree([geom |-> t, joint |-> Elem(JointAttrib("slide", "", ""))], m, l, s) :
        t \in TopGeomDefaults, m \in GeomOnly(GeomDefaults),
        l \in GeomOnly(GeomDefaults), s \in GeomOnly(GeomDefaults)}

JointTrees ==
    {DefaultTree([geom |-> Elem(Attrib("box", "1 2 3")), joint |-> t], m, l, s) :
        t \in TopJointDefaults, m \in JointOnly(JointDefaults),
        l \in JointOnly(JointDefaults), s \in JointOnly(JointDefaults)}

ClassNames == {"collision", "mid", "leaf", "side"}

GeomElems ==
    {Element(<<Entry("class", c)>> \o a, 12, "/mujoco/worldbody/body/geom") :
        c \in ClassNames,
        a \in {Attrib("", ""), Attrib("box", ""), Attrib("cylinder", ""),
               Attrib("", "3"), Attrib("", "3 4"), Attrib("sphere", "3"),
               <<Entry("mesh", "hand"), Entry("type", "box")>>}}

JointElements ==
    {Element((IF c = "" THEN <<>> ELSE <<Entry("class", c)>>) \o a, 12,
             "/mujoco/worldbody/body/body/joint") :
        c \in ClassNames \cup {"", "ghost"},
        a \in {JointAttrib("", "", ""), JointAttrib("hinge", "", ""),
               JointAttrib("", "0 0 -1", ""), JointAttrib("", "", "0 3")}}

HandMesh == Mesh(<<PyInt(4), Str("/mujoco/asset/mesh"), Str("arm.xml")>>,
                 Str("hand.stl"), FloatTuple(<<1, 1, 1>>))

\* parsers.py lines 1000-1004: the global meshes of the document, by name
GlobalMeshes == <<Entry("hand", HandMesh)>>

MjcfFile == [name |-> "arm.xml"]

InitDefaults ==
    /\ \/ fmt = "geom" /\ doc \in [defaults : GeomTrees, elem : GeomElems]
       \/ fmt = "joint" /\ doc \in [defaults : JointTrees, elem : JointElements]
    /\ result = None
    /\ pc = "call"
    /\ old_robot = Unused /\ new_robot = Unused /\ excluded_categories = Unused
    /\ float_tol = Unused /\ old_value = Unused /\ new_value = Unused /\ path = Unused

\* parsers.py lines 831 and 1105-1111, 1230-1246: the classes of the document,
\* then the attributes of one geom or joint element resolved against them
ResolveElement ==
    /\ pc = "call"
    /\ result' =
          IF fmt = "geom"
          THEN geom_geometry(doc.elem, parse_classes(doc.defaults), GlobalMeshes, MjcfFile)
          ELSE joint_attributes(doc.elem, parse_classes(doc.defaults))
    /\ pc' = "done"
    /\ UNCHANGED <<old_robot, new_robot, excluded_categories, float_tol,
                   old_value, new_value, path, fmt, doc>>

NextDefaults == ResolveElement

SpecDefaults == InitDefaults /\ [][NextDefaults]_vars

-----------------------------------------------------------------------------
(* Class-default resolution *)

RECURSIVE PathTo(_, _, _)
\* The default elements from the outermost one down to the one of a class, as
\* nested in the document; <<>> when the document has no such class.
PathTo(default_elems, i, class) ==
    IF i > Len(default_elems) THEN <<>>
    ELSE IF default_elems[i].class = class THEN <<default_elems[i]>>
    ELSE LET below == PathTo(default_elems[i].children, 1, class)
         IN  IF below # <<>> THEN <<default_elems[i]>> \o below
             ELSE PathTo(default_elems, i + 1, class)

\* The value the nearest class of the path gives to an attribute of an element
\* type, "" when no class of the path defines it.
NearestValue(nesting, element_type, attr) ==
    LET defining == {i \in 1..Len(nesting) :
                        /\ nesting[i][element_type].present
                        /\ HasKey(nesting[i][element_type].attrib, attr)}
        nearest == CHOOSE i \in defining : \A j \in defining : j <= i
    IN  IF defining = {} THEN ""
        ELSE DictGetItem(nesting[nearest][element_type].attrib, attr)

ResolvedNames == <<"type", "size", "axis", "range", "mesh">>

\* The attributes of the element with each resolved default written out on the
\* element itself, and no class.
WrittenOut ==
    LET nesting == PathTo(doc.defaults, 1, AttrGet(doc.elem.attrib, "class", ""))
        value(a) == GetOr(doc.elem.attrib, a,
                          IF a = "mesh" THEN "" ELSE NearestValue(nesting, fmt, a))
        entries == [i \in 1..Len(ResolvedNames) |->
                       Entry(ResolvedNames[i], value(ResolvedNames[i]))]
    IN  Element(SelectSeq(entries, LAMBDA e : e.val # ""), doc.elem.line, doc.elem.xpath)

\* C12: for every class and element type (geom or joint) each attribute's
\* resolved default is the value of the nearest class defining it, walking
\* from the class towards the outermost one, and an attribute set on the
\* element itself overrides it: the element resolves as if every effective
\* value were written on the element itself.
C12_NearestClassWins ==
    Done =>
        /\ \A c \in ClassNames : \A t \in {"geom", "joint"} :
           \A i \in 1..Len(ResolvedNames) :
              AttrGet(get_class_defaults(parse_classes(doc.defaults), c, t),
                      ResolvedNames[i], "")
                = NearestValue(PathTo(doc.defaults, 1, c), t, ResolvedNames[i])
        /\ fmt = "geom" => result = parse_geometry(WrittenOut, <<>>, GlobalMeshes, MjcfFile)
        /\ fmt = "joint" => result = joint_attributes(WrittenOut, <<>>)

\* A class overriding only the size below a class setting type sphere gives a
\* Sphere of the overridden radius.
C12_Witness ==
    /\ Done /\ fmt = "geom"
    /\ doc.defaults = DefaultTree([geom |-> Elem(Attrib("box", "1 2 3")),
                                   joint |-> Elem(JointAttrib("slide", "", ""))],
                                  [geom |-> Elem(Attrib("sphere", "")), joint |-> NoElem],
                                  [geom |-> Elem(Attrib("", "2")), joint |-> NoElem],
                                  [geom |-> NoElem, joint |-> NoElem])
    /\ doc.elem.attrib = <<Entry("class", "leaf")>>
    /\ result.ok /\ result.value.s = "Sphere" /\ result.value.items[4] = Float(2)

-----------------------------------------------------------------------------
(* parsers.py: URDFParser materials *)

\* A child element with one attribute: absent, or present with the attribute's
\* value ("" when the attribute is not written).
NoChild == [present |-> FALSE, value |-> ""]

Child(value) == [present |-> TRUE, value |-> value]

\* A material element: its name ("" when not written), color and texture children.
MaterialElem(name, color, texture, line, xpath) ==
    [present |-> TRUE, name |-> name, color |-> color, texture |-> texture,
     line |-> line, xpath |-> xpath]

NoMaterialElem ==
    [present |-> FALSE, name |-> "", color |-> NoChild, texture |-> NoChild,
     line |-> 0, xpath |-> ""]

\* elem.get(key): None for an attribute that is not written
StrOrNone(value) == IF value = "" THEN None ELSE Str(value)

\* parsers.py lines 178-181, 366-368: the rgba of a color element
parse_color(color_elem) == parse_vector(GetAttr(color_elem.value, "0 0 0 0"), 4)

\* parsers.py lines 183-194: the Material of one global material element
global_material(elem, file) ==
    LET rgba == parse_color(elem.color)
    IN  IF elem.color.present /\ ~rgba.ok THEN Raises(rgba.error)
        ELSE Returns(Material(get_source_metadata(elem.line, elem.xpath, file),
                              StrOrNone(elem.name),
                              IF elem.color.present THEN FloatTuple(rgba.value) ELSE None,
                              IF elem.texture.present THEN StrOrNone(elem.texture.value)
                              ELSE None))

RECURSIVE parse_global_materials(_, _, _, _)
\* parsers.py lines 157-197: URDFParser._parse_global_materials, from element i on
parse_global_materials(elems, i, materials, file) ==
    IF i > Len(elems) THEN LoopOk(materials)
    ELSE IF HasKey(materials, elems[i].name)
    THEN LoopRaise("ValueError: Duplicate material name: '" \o elems[i].name \o "'")
    ELSE IF ~global_material(elems[i], file).ok
    THEN LoopRaise(global_material(elems[i], file).error)
    ELSE parse_global_materials(elems, i + 1,
            DictSet(materials, elems[i].name, global_material(elems[i], file).value), file)

\* The fields of a Material value.
MaterialRgba(material) == material.items[5]

MaterialTexture(material) == material.items[6]

\* parse_material where a local color or texture cuts off the global material.
parse_material_local_only(material_elem, global_materials, file) ==
    LET named == HasKey(global_materials, material_elem.name)
                 /\ ~material_elem.color.present /\ ~material_elem.texture.present
        resolved == DictGetItem(global_materials, material_elem.name)
        local == parse_color(material_elem.color)
    IN  IF ~material_elem.present THEN Returns(None)
        ELSE IF material_elem.color.present /\ ~local.ok THEN Raises(local.error)
        ELSE Returns(Material(
                get_source_metadata(material_elem.line, material_elem.xpath, file),
                StrOrNone(material_elem.name),
                IF material_elem.color.present THEN FloatTuple(local.value)
                ELSE IF named THEN MaterialRgba(resolved) ELSE None,
                IF material_elem.texture.present
                THEN StrOrNone(material_elem.texture.value)
                ELSE IF named THEN MaterialTexture(resolved) ELSE None))

\* parsers.py lines 344-380: URDFParser._parse_material, on the material child
\* of a visual element
parse_material(material_elem, global_materials, file) ==
    LET named == HasKey(global_materials, material_elem.name)
        resolved == DictGetItem(global_materials, material_elem.name)
        local == parse_color(material_elem.color)
    IN  IF ~material_elem.present THEN Returns(None)
        ELSE IF material_elem.color.present /\ ~local.ok THEN Raises(local.error)
        ELSE Returns(Material(
                get_source_metadata(material_elem.line, material_elem.xpath, file),
                StrOrNone(material_elem.name),
                IF material_elem.color.present THEN FloatTuple(local.value)
                ELSE IF named THEN MaterialRgba(resolved) ELSE None,
                IF material_elem.texture.present
                THEN StrOrNone(material_elem.texture.value)
                ELSE IF named THEN MaterialTexture(resolved) ELSE None))

\* parsers.py lines 149-150, 336: the global materials of the document, then
\* the material of one visual
visual_material(doc_) ==
    LET materials == parse_global_materials(doc_.materials, 1, <<>>, doc_.file)
    IN  IF ~materials.ok THEN Raises(materials.error)
        ELSE parse_material(doc_.visual_material, materials.items, doc_.file)

MaxMaterials == 2

GlobalMaterialElems ==
    {MaterialElem(n, c, t, 2, "/robot/material") :
        n \in {"red", "blue"}, c \in {NoChild, Child("1 0 0 1")},
        t \in {NoChild, Child("red.png")}}

LocalMaterialElems ==
    {NoMaterialElem} \cup
    {MaterialElem(n, c, t, 9, "/robot/link/visual/material") :
        n \in {"", "red", "green"},
        c \in {NoChild, Child(""), Child("0 0 1 1"), Child("0 1")},
        t \in {NoChild, Child(""), Child("local.png")}}

MaterialDocs ==
    [file : {[name |-> "arm.urdf"]},
     materials : UNION {[1..n -> GlobalMaterialElems] : n \in 0..MaxMaterials},
     visual_material : LocalMaterialElems]

InitMaterial ==
    /\ doc \in MaterialDocs
    /\ fmt = "urdf"
    /\ result = None
    /\ pc = "call"
    /\ old_robot = Unused /\ new_robot = Unused /\ excluded_categories = Unused
    /\ float_tol = Unused /\ old_value = Unused /\ new_value = Unused /\ path = Unused

\* parsers.py lines 149-150, 336: URDFParser.parse up to the material of a visual
ParseMaterial ==
    /\ pc = "call"
    /\ result' = visual_material(doc)
    /\ pc' = "done"
    /\ UNCHANGED <<old_robot, new_robot, excluded_categories, float_tol,
                   old_value, new_value, path, fmt, doc>>

NextMaterial == ParseMaterial

SpecMaterial == InitMaterial /\ [][NextMaterial]_vars

\* The global material elements of the document with a given name.
GlobalsNamed(name) == {i \in 1..Len(doc.materials) : doc.materials[i].name = name}

\* The rgba a color child stands for.
ColorOf(color_elem) == FloatTuple(parse_color(color_elem).value)

\* What the claim resolves a child (color or texture) of the visual's material
\* to: the local child when there is one, else the child of the global
\* material of the same name, else None.
ResolvedChild(child, value(_)) ==
    LET local == doc.visual_material[child]
        globals == GlobalsNamed(doc.visual_material.name)
        global == doc.materials[CHOOSE i \in globals : TRUE][child]
    IN  IF local.present THEN value(local)
        ELSE IF globals # {} /\ global.present THEN value(global)
        ELSE None

TextureOf(texture_elem) == StrOrNone(texture_elem.value)

\* C13: the material of a visual is None without a material element;
\* otherwise its rgba is the local color when the element has one, else the
\* rgba of the global material of that name, else None, and its texture
\* filename follows the same rule independently of the color.
C13_MaterialResolution ==
    (Done /\ result.ok) =>
        IF ~doc.visual_material.present THEN result.value = None
        ELSE /\ result.value.s = "Material"
             /\ result.value.items[4] = StrOrNone(doc.visual_material.name)
             /\ MaterialRgba(result.value) = ResolvedChild("color", ColorOf)
             /\ MaterialTexture(result.value) = ResolvedChild("texture", TextureOf)

\* A local texture over a global material that has a color and a texture: the
\* color comes from the global material, the texture from the visual.
C13_Witness ==
    /\ Done /\ result.ok
    /\ doc.visual_material.present /\ doc.visual_material.name = "red"
    /\ ~doc.visual_material.color.present
    /\ doc.visual_material.texture = Child("local.png")
    /\ \E i \in GlobalsNamed("red") :
          doc.materials[i].color = Child("1 0 0 1")
          /\ doc.materials[i].texture = Child("red.png")
    /\ MaterialRgba(result.value) = FloatTuple(<<1, 0, 0, 1>>)
    /\ MaterialTexture(result.value) = Str("local.png")

-----------------------------------------------------------------------------
(* SDF joint frames *)

\* The joint's pose element names the joint's declared parent as its frame.
JointPoseRelatesToParent(joint_elem) ==
    joint_elem.pose.present /\ joint_elem.pose.relative_to = joint_elem.parent

\* C14: SDFParser returns a Robot only if every joint element has a pose
\* element whose relative_to equals the joint's declared parent; a document
\* with a joint without pose, without relative_to or with another relative_to
\* yields an error and no Robot.
C14_JointPoseRelativeTo ==
    (Done /\ fmt = "sdf") =>
        /\ result.ok =>
              \A i \in 1..Len(doc.joints) : JointPoseRelatesToParent(doc.joints[i])
        /\ (\E i \in 1..Len(doc.joints) : ~JointPoseRelatesToParent(doc.joints[i]))
              => ~result.ok /\ result.robot = Robot("", <<>>, <<>>)

\* Both cases happen: a loadable document whose second joint names another
\* frame is rejected with that joint's error.
C14_Witness ==
    /\ Done /\ fmt = "sdf" /\ Loads
    /\ Len(doc.joints) = 2 /\ doc.joints[1].name # doc.joints[2].name
    /\ JointPoseRelatesToParent(doc.joints[1])
    /\ doc.joints[2].pose = PoseElem("b", TRUE)
    /\ ~result.ok
    /\ result.error = "ValueError: Joint '" \o doc.joints[2].name
                      \o "' pose must have relative_to='a'"

-----------------------------------------------------------------------------
(* parsers.py: poses and quaternions *)

\* A float given in millionths, the precision _rpy_to_quat rounds to; whole
\* numbers keep the form of Float.
Micro(n) ==
    IF n % 1000000 = 0 THEN Float(n \div 1000000) ELSE Val("float", n, "e-6", <<>>)

\* round(cos(0.5 * a), 6) and round(sin(0.5 * a), 6) in millionths, a = 0..7 radians
CosHalfTable == <<1000000, 877583, 540302, 70737, -416147, -801144, -989992, -936457>>

SinHalfTable == <<0, 479426, 841471, 997495, 909297, 598472, 141120, -350783>>

CosHalf(a) == CosHalfTable[Abs(a) + 1]

SinHalf(a) == IF a < 0 THEN 0 - SinHalfTable[Abs(a) + 1] ELSE SinHalfTable[a + 1]

\* rpy_to_quat without the sign rule.
rpy_to_quat_unsigned(rpy) ==
    LET a == rpy[1] + rpy[2] + rpy[3]
        axis == IF rpy[2] # 0 THEN 3 ELSE IF rpy[3] # 0 THEN 4 ELSE 2
    IN  Tuple([i \in 1..4 |-> IF i = 1 THEN Micro(CosHalf(a))
                              ELSE IF i = axis THEN Micro(SinHalf(a))
                              ELSE Float(0)])

\* parsers.py lines 90-115: XMLParser._rpy_to_quat on whole radians with at
\* most one angle different from 0, where each product of the formula reduces
\* to one factor: qw is the cosine and the component of the turned axis the
\* sine of the half angle, negated when qw < 0.
rpy_to_quat(rpy) ==
    LET a == rpy[1] + rpy[2] + rpy[3]
        axis == IF rpy[2] # 0 THEN 3 ELSE IF rpy[3] # 0 THEN 4 ELSE 2
        sign == IF CosHalf(a) < 0 THEN -1 ELSE 1
    IN  Tuple([i \in 1..4 |-> IF i = 1 THEN Micro(sign * CosHalf(a))
                              ELSE IF i = axis THEN Micro(sign * SinHalf(a))
                              ELSE Float(0)])

\* An origin element of URDF: absent, or with xyz and rpy ("" when not written).
NoOrigin == [present |-> FALSE, xyz |-> "", rpy |-> "", line |-> 0, xpath |-> ""]

OriginElem(xyz, rpy, line, xpath) ==
    [present |-> TRUE, xyz |-> xyz, rpy |-> rpy, line |-> line, xpath |-> xpath]

\* parsers.py lines 424-441: URDFParser._parse_origin
urdf_parse_origin(origin_elem, file) ==
    LET xyz == parse_vector(GetAttr(origin_elem.xyz, "0 0 0"), 3)
        rpy == parse_vector(GetAttr(origin_elem.rpy, "0 0 0"), 3)
    IN  IF ~origin_elem.present THEN Returns(IdentityPose)
        ELSE IF ~xyz.ok THEN Raises(xyz.error)
        ELSE IF ~rpy.ok THEN Raises(rpy.error)
        ELSE Returns(Pose(get_source_metadata(origin_elem.line, origin_elem.xpath, file),
                          FloatTuple(xyz.value), rpy_to_quat(rpy.value)))

\* A pose element of SDF: absent, or with its text and rotation_format
\* attribute ("" when not written).
NoPoseText == [present |-> FALSE, text |-> "", rotation_format |-> "",
               line |-> 0, xpath |-> ""]

PoseText(text, rotation_format, line, xpath) ==
    [present |-> TRUE, text |-> text, rotation_format |-> rotation_format,
     line |-> line, xpath |-> xpath]

\* parsers.py lines 736-767: SDFParser._parse_pose
sdf_parse_pose(pose_elem, file) ==
    LET rotation_format == GetAttr(pose_elem.rotation_format, "euler_rpy")
        meta == get_source_metadata(pose_elem.line, pose_elem.xpath, file)
        euler == parse_vector(pose_elem.text, 6)
        direct == parse_vector(pose_elem.text, 7)
    IN  IF ~pose_elem.present THEN Returns(IdentityPose)
        ELSE IF Split(pose_elem.text) = <<>> THEN Returns(IdentityPose)
        ELSE IF rotation_format = "euler_rpy" THEN
            IF ~euler.ok THEN Raises(euler.error)
            ELSE Returns(Pose(meta, FloatTuple(SubSeq(euler.value, 1, 3)),
                              rpy_to_quat(SubSeq(euler.value, 4, 6))))
        ELSE IF rotation_format = "quat_xyzw" THEN
            IF ~direct.ok THEN Raises(direct.error)
            ELSE Returns(Pose(meta, FloatTuple(SubSeq(direct.value, 1, 3)),
                              FloatTuple(<<direct.value[7], direct.value[4],
                                           direct.value[5], direct.value[6]>>)))
        ELSE Raises("UnboundLocalError: xyz")

\* parsers.py lines 1273-1299: MJCFParser._parse_origin
mjcf_parse_origin(elem, class_defaults, file) ==
    LET xyz == parse_vector(GetOr(elem.attrib, "pos", AttrGet(class_defaults, "pos", "0 0 0")), 3)
        quat_str == GetOr(elem.attrib, "quat", AttrGet(class_defaults, "quat", ""))
        euler_str == GetOr(elem.attrib, "euler", AttrGet(class_defaults, "euler", ""))
        quat == parse_vector(quat_str, 4)
        rpy == parse_vector(euler_str, 3)
        meta == get_source_metadata(elem.line, elem.xpath, file)
    IN  IF ~xyz.ok THEN Raises(xyz.error)
        ELSE IF quat_str # "" THEN
            IF ~quat.ok THEN Raises(quat.error)
            ELSE Returns(Pose(meta, FloatTuple(xyz.value), FloatTuple(quat.value)))
        ELSE IF euler_str # "" THEN
            IF ~rpy.ok THEN Raises(rpy.error)
            ELSE Returns(Pose(meta, FloatTuple(xyz.value), rpy_to_quat(rpy.value)))
        ELSE Returns(Pose(meta, FloatTuple(xyz.value), FloatTuple(<<1, 0, 0, 0>>)))

\* GfQuat.GetNormalized() of a quaternion with one component different from 0:
\* that component becomes 1 or -1.
GetNormalized(quat) ==
    [i \in 1..4 |-> IF quat[i] > 0 THEN 1 ELSE IF quat[i] < 0 THEN -1 ELSE 0]

\* parsers.py lines 1606-1612: the origin of a USD joint from physics:localPos0
\* and physics:localRot0 (real part first)
usd_joint_origin(pos, rot) ==
    Returns(Pose(NoMeta, FloatTuple(pos), FloatTuple(GetNormalized(rot))))

\* The quat of a Pose value and its real part.
PoseXyz(pose) == pose.items[4]

PoseQuat(pose) == pose.items[5]

QuatW(pose) == PoseQuat(pose).items[1].n

-----------------------------------------------------------------------------
(* Pose sources *)

RpyTexts == {"0 0 0", "4 0 0", "-4 0 0", "0 5 0", "0 0 2", "0 0 -7", "1 0 0"}

\* Direct quaternions as written in SDF (x y z w order) and in MJCF (w x y z).
QuatTextsXyzw == {"0 0 0 1", "0 0 0 -1", "1 0 0 0", "-1 0 0 0"}

QuatTextsWxyz == {"1 0 0 0", "-1 0 0 0", "0 1 0 0", "0 0 -1 0"}

UrdfOrigins ==
    {NoOrigin} \cup
    {OriginElem(xyz, rpy, 7, "/robot/joint/origin") :
        xyz \in {"", "1 2 3"}, rpy \in RpyTexts \cup {"", "1 0"}}

SdfPoses ==
    {NoPoseText} \cup
    {PoseText(t, f, 7, "/sdf/model/joint/pose") :
        t \in {"", " "} \cup {"1 2 3 " \o r : r \in RpyTexts}
              \cup {"1 2 3 " \o q : q \in QuatTextsXyzw},
        f \in {"", "euler_rpy", "quat_xyzw"}}

PoseAttrib(pos, quat, euler) ==
    (IF pos = "" THEN <<>> ELSE <<Entry("pos", pos)>>)
    \o (IF quat = "" THEN <<>> ELSE <<Entry("quat", quat)>>)
    \o (IF euler = "" THEN <<>> ELSE <<Entry("euler", euler)>>)

MjcfPoseElems ==
    {[elem |-> Element(PoseAttrib(p, q, e), 7, "/mujoco/worldbody/body/geom"),
      class_defaults |-> d] :
        p \in {"", "1 2 3"}, q \in QuatTextsWxyz \cup {""}, e \in {"", "4 0 0", "0 0 2"},
        d \in {<<>>, PoseAttrib("", "0 0 1 0", ""), PoseAttrib("3 2 1", "", "0 5 0")}}

UsdJointFrames ==
    {[pos |-> p, rot |-> [i \in 1..4 |-> IF i = c THEN v ELSE 0]] :
        p \in {<<0, 0, 0>>, <<1, 2, 3>>}, c \in 1..4, v \in {-2, -1, 1, 2}}

InitPose ==
    /\ \/ fmt = "urdf" /\ doc \in UrdfOrigins
       \/ fmt = "sdf" /\ doc \in SdfPoses
       \/ fmt = "mjcf" /\ doc \in MjcfPoseElems
       \/ fmt = "usd" /\ doc \in UsdJointFrames
    /\ result = None
    /\ pc = "call"
    /\ old_robot = Unused /\ new_robot = Unused /\ excluded_categories = Unused
    /\ float_tol = Unused /\ old_value = Unused /\ new_value = Unused /\ path = Unused

\* parsers.py lines 424, 736, 1273, 1606: each parser's pose of one element
ParsePose ==
    /\ pc = "call"
    /\ result' = CASE fmt = "urdf" -> urdf_parse_origin(doc, [name |-> "arm.urdf"])
                   [] fmt = "sdf" -> sdf_parse_pose(doc, [name |-> "arm.sdf"])
                   [] fmt = "mjcf" -> mjcf_parse_origin(doc.elem, doc.class_defaults, MjcfFile)
                   [] fmt = "usd" -> usd_joint_origin(doc.pos, doc.rot)
    /\ pc' = "done"
    /\ UNCHANGED <<old_robot, new_robot, excluded_categories, float_tol,
                   old_value, new_value, path, fmt, doc>>

NextPose == ParsePose

SpecPose == InitPose /\ [][NextPose]_vars

\* C15: every quaternion a parser stores in a Pose has real part w >= 0,
\* whichever representation the source used (Euler angles, a direct
\* quaternion of SDF or MJCF, a USD rotation attribute).
C15_SignCanonical == (Done /\ result.ok) => QuatW(result.value) >= 0

\* The Euler path alone: a quaternion computed by _rpy_to_quat has w >= 0.
C15_EulerCanonical ==
    (Done /\ result.ok /\ fmt = "urdf") => QuatW(result.value) >= 0

\* A direct quaternion with negative real part is stored as written.
C15_NegativeStored ==
    /\ Done /\ result.ok /\ fmt = "sdf"
    /\ doc.text = "1 2 3 0 0 0 -1" /\ doc.rotation_format = "quat_xyzw"
    /\ PoseQuat(result.value) = FloatTuple(<<-1, 0, 0, 0>>)

-----------------------------------------------------------------------------
(* parsers.py: optional elements of URDF and SDF *)

\* float(text or default) of each text, or the ValueError of the first bad one
Floats(texts, default) ==
    IF \E i \in 1..Len(texts) : ~IsIntLiteral(GetAttr(texts[i], default))
    THEN Raises("ValueError: could not convert string to float")
    ELSE Returns([i \in 1..Len(texts) |-> Float(ToFloat(GetAttr(texts[i], default)))])

\* An axis element: absent, or with its xyz ("" when not written) and, in SDF,
\* its limit child.
NoAxis == [present |-> FALSE, xyz |-> ""]

AxisElem(xyz) == [present |-> TRUE, xyz |-> xyz]

\* parsers.py lines 443-456 and 769-782: _parse_axis of URDF and of SDF
parse_axis(axis_elem) ==
    LET xyz == parse_vector(GetAttr(axis_elem.xyz, "1 0 0"), 3)
    IN  IF ~axis_elem.present THEN Returns(FloatTuple(<<1, 0, 0>>))
        ELSE IF ~xyz.ok THEN Raises(xyz.error)
        ELSE Returns(FloatTuple(xyz.value))

\* A limit element: absent, or with lower, upper, effort, velocity ("" when
\* not written).
NoLimit == [present |-> FALSE, values |-> <<"", "", "", "">>, line |-> 0, xpath |-> ""]

LimitElem(values, line, xpath) ==
    [present |-> TRUE, values |-> values, line |-> line, xpath |-> xpath]

\* parse_limit with a zero Limit in place of None.
parse_limit_zero(limit_elem, file) ==
    LET values == Floats(limit_elem.values, "0")
    IN  IF ~limit_elem.present
        THEN Returns(Limit(NoMeta, Float(0), Float(0), Float(0), Float(0)))
        ELSE IF ~values.ok THEN Raises(values.error)
        ELSE Returns(Limit(get_source_metadata(limit_elem.line, limit_elem.xpath, file),
                           values.value[1], values.value[2],
                           values.value[3], values.value[4]))

\* parsers.py lines 458-478: URDFParser._parse_limit; lines 797-808 of
\* SDFParser._parse_limit, which reads the same four values
parse_limit(limit_elem, file) ==
    LET values == Floats(limit_elem.values, "0")
    IN  IF ~limit_elem.present THEN Returns(None)
        ELSE IF ~values.ok THEN Raises(values.error)
        ELSE Returns(Limit(get_source_metadata(limit_elem.line, limit_elem.xpath, file),
                           values.value[1], values.value[2],
                           values.value[3], values.value[4]))

\* parsers.py lines 784-799: SDFParser._parse_limit looks for the limit inside
\* the axis element
sdf_parse_limit(axis_elem, limit_elem, file) ==
    IF ~axis_elem.present THEN Returns(None) ELSE parse_limit(limit_elem, file)

\* An inertia element: absent, or with ixx, ixy, ixz, iyy, iyz, izz.
NoInertia == [present |-> FALSE, values |-> <<"", "", "", "", "", "">>]

InertiaElem(values) == [present |-> TRUE, values |-> values]

\* An inertial element: absent, or with its pose, mass and inertia; mass is
\* NoChild when there is no mass element.
NoInertial ==
    [present |-> FALSE, origin |-> NoOrigin, pose |-> NoPoseText, mass |-> NoChild,
     inertia |-> NoInertia]

InertialElem(origin, pose, mass, inertia) ==
    [present |-> TRUE, origin |-> origin, pose |-> pose, mass |-> mass,
     inertia |-> inertia]

\* parsers.py lines 254-266 and 614-626: the Inertia of an inertial element
parse_inertia(inertia_elem, meta) ==
    LET values == Floats(inertia_elem.values, "0")
    IN  IF ~inertia_elem.present THEN Returns(ZeroInertia)
        ELSE IF ~values.ok THEN Raises(values.error)
        ELSE Returns(Inertia(meta, values.value[1], values.value[2], values.value[3],
                             values.value[4], values.value[5], values.value[6]))

\* parsers.py lines 233-268 and 596-627: _parse_inertial of URDF (origin
\* element, mass value attribute) and of SDF (pose element, mass text; float()
\* of the empty text of a mass element raises)
parse_inertial(format, inertial_elem, file) ==
    LET origin == IF format = "urdf" THEN urdf_parse_origin(inertial_elem.origin, file)
                  ELSE sdf_parse_pose(inertial_elem.pose, file)
        mass == IF format = "sdf" /\ inertial_elem.mass.present
                     /\ inertial_elem.mass.value = ""
                THEN Raises("ValueError: could not convert string to float")
                ELSE Floats(<<inertial_elem.mass.value>>, "0")
        inertia == parse_inertia(inertial_elem.inertia,
                                 get_source_metadata(5, "/inertial/inertia", file))
    IN  IF ~inertial_elem.present THEN Returns(None)
        ELSE IF ~origin.ok THEN Raises(origin.error)
        ELSE IF ~mass.ok THEN Raises(mass.error)
        ELSE IF ~inertia.ok THEN Raises(inertia.error)
        ELSE Returns(Inertial(get_source_metadata(4, "/inertial", file),
                              origin.value, mass.value[1], inertia.value))

\* parsers.py lines 703-734: SDFParser._parse_material; of the material element
\* record, color holds the diffuse text, texture the uri of the script element
\* and name the script's name
sdf_parse_material(material_elem, file) ==
    LET rgba == parse_vector(material_elem.color.value, 4)
    IN  IF ~material_elem.present THEN Returns(None)
        ELSE IF material_elem.color.value # "" /\ ~rgba.ok THEN Raises(rgba.error)
        ELSE Returns(Material(
                get_source_metadata(material_elem.line, material_elem.xpath, file),
                IF material_elem.texture.present THEN StrOrNone(material_elem.name)
                ELSE None,
                IF material_elem.color.value # "" THEN FloatTuple(rgba.value) ELSE None,
                IF material_elem.texture.present
                THEN StrOrNone(material_elem.texture.value) ELSE None))

\* The optional parts of a joint and of a link and visual, parsed by one format.
parse_optional(format, doc_) ==
    LET file == [name |-> "arm." \o format]
        origin == IF format = "urdf" THEN urdf_parse_origin(doc_.origin, file)
                  ELSE sdf_parse_pose(doc_.pose, file)
        axis == parse_axis(doc_.axis)
        limit == IF format = "urdf" THEN parse_limit(doc_.limit, file)
                 ELSE sdf_parse_limit(doc_.axis, doc_.limit, file)
        inertial == parse_inertial(format, doc_.inertial, file)
        material == IF format = "urdf" THEN parse_material(doc_.material, <<>>, file)
                    ELSE sdf_parse_material(doc_.material, file)
        failed == SelectSeq(<<origin, axis, limit, inertial, material>>,
                            LAMBDA r : ~r.ok)
    IN  IF failed # <<>> THEN Raises(failed[1].error)
        ELSE Returns([origin |-> origin.value, axis |-> axis.value,
                      limit |-> limit.value, inertial |-> inertial.value,
                      material |-> material.value])

-----------------------------------------------------------------------------
(* Elements with optional parts *)

OptionalOrigins == {NoOrigin, OriginElem("1 2 3", "", 3, "/origin"), OriginElem("", "0 0 2", 3, "/origin")}

OptionalPoses == {NoPoseText, PoseText("", "", 3, "/pose"), PoseText("1 2 3 0 0 2", "", 3, "/pose")}

OptionalAxes == {NoAxis, AxisElem(""), AxisElem("0 0 1")}

OptionalLimits ==
    {NoLimit} \cup
    {LimitElem(v, 6, "/limit") :
        v \in {<<"", "", "", "">>, <<"-1", "", "", "">>, <<"", "2", "", "7">>,
               <<"-1", "2", "5", "7">>}}

OptionalInertias ==
    {NoInertia, InertiaElem(<<"", "", "", "", "", "">>),
     InertiaElem(<<"2", "", "", "", "", "">>), InertiaElem(<<"1", "0", "0", "1", "0", "3">>)}

OptionalInertials ==
    {NoInertial} \cup
    {InertialElem(o, p, m, i) :
        o \in {NoOrigin}, p \in {NoPoseText}, m \in {NoChild, Child(""), Child("5")},
        i \in OptionalInertias}
    \cup {InertialElem(OriginElem("1 2 3", "", 4, "/inertial/origin"),
                       PoseText("1 2 3 0 0 0", "", 4, "/inertial/pose"),
                       Child("5"), NoInertia)}

OptionalMaterials ==
    {NoMaterialElem, MaterialElem("red", NoChild, NoChild, 9, "/material"),
     MaterialElem("red", Child("1 0 0 1"), Child("red.png"), 9, "/material")}

OptionalDocs ==
    [origin : OptionalOrigins, pose : OptionalPoses, axis : OptionalAxes,
     limit : OptionalLimits, inertial : OptionalInertials, material : OptionalMaterials]

\* A document writes one of origin (URDF) and pose (SDF).
InitOptional ==
    /\ fmt \in {"urdf", "sdf"}
    /\ doc \in {d \in OptionalDocs : IF fmt = "urdf" THEN d.pose = NoPoseText
                                     ELSE d.origin = NoOrigin}
    /\ result = None
    /\ pc = "call"
    /\ old_robot = Unused /\ new_robot = Unused /\ excluded_categories = Unused
    /\ float_tol = Unused /\ old_value = Unused /\ new_value = Unused /\ path = Unused

\* parsers.py lines 223-229, 402-420 (URDF) and 534-547, 582-592 (SDF): the
\* optional parts of one joint, link and visual
ParseOptional ==
    /\ pc = "call"
    /\ result' = parse_optional(fmt, doc)
    /\ pc' = "done"
    /\ UNCHANGED <<old_robot, new_robot, excluded_categories, float_tol,
                   old_value, new_value, path, fmt, doc>>

NextOptional == ParseOptional

SpecOptional == InitOptional /\ [][NextOptional]_vars

\* The fields of Inertial and Limit values.
InertialOrigin(inertial) == inertial.items[4]

InertialMass(inertial) == inertial.items[5]

InertialInertia(inertial) == inertial.items[6]

LimitValues(limit) == SubSeq(limit.items, 4, 7)

\* The value the claim gives to attribute text: 0 when not written.
WrittenOrZero(text) == IF text = "" THEN Float(0) ELSE Float(ToFloat(text))

\* C16: in the URDF and SDF parsers an absent origin or pose gives the
\* identity pose, an absent axis (1,0,0), an absent mass or inertia inside an
\* inertial element zeros; an absent inertial, limit or material element
\* gives None; and a limit element gets 0 for each attribute not written.
C16_Defaults ==
    (Done /\ result.ok) =>
        LET r == result.value
            posed == IF fmt = "urdf" THEN doc.origin.present ELSE doc.pose.present
            limited == doc.limit.present /\ (fmt = "sdf" => doc.axis.present)
        IN  /\ ~posed => r.origin = IdentityPose
            /\ ~doc.axis.present => r.axis = FloatTuple(<<1, 0, 0>>)
            /\ ~doc.inertial.present <=> r.inertial = None
            /\ doc.inertial.present =>
                  /\ ~doc.inertial.mass.present => InertialMass(r.inertial) = Float(0)
                  /\ ~doc.inertial.inertia.present
                        => InertialInertia(r.inertial) = ZeroInertia
                  /\ (~doc.inertial.origin.present /\ ~doc.inertial.pose.present)
                        => InertialOrigin(r.inertial) = IdentityPose
            /\ ~limited <=> r.limit = None
            /\ limited =>
                  LimitValues(r.limit) = [i \in 1..4 |-> WrittenOrZero(doc.limit.values[i])]
            /\ ~doc.material.present <=> r.material = None

\* An element with nothing optional written but an inertial without mass and
\* inertia and a limit with only a lower bound.
C16_Witness ==
    /\ Done /\ result.ok /\ fmt = "urdf"
    /\ doc.origin = NoOrigin /\ doc.axis = NoAxis /\ doc.material = NoMaterialElem
    /\ doc.inertial = InertialElem(NoOrigin, NoPoseText, NoChild, NoInertia)
    /\ doc.limit.values = <<"-1", "", "", "">>
    /\ result.value.origin = IdentityPose
    /\ InertialMass(result.value.inertial) = Float(0)
    /\ LimitValues(result.value.limit) = <<Float(-1), Float(0), Float(0), Float(0)>>

-----------------------------------------------------------------------------
(* MJCF extents *)

\* The type and size a geom element ends up with: its own attribute when
\* written, else the value of the nearest class defining it, else sphere and
\* no size.
EffectiveGeom ==
    LET nesting == PathTo(doc.defaults, 1, AttrGet(doc.elem.attrib, "class", ""))
    IN  [type |-> GetAttr(GetOr(doc.elem.attrib, "type",
                                NearestValue(nesting, "geom", "type")), "sphere"),
         size |-> Split(GetOr(doc.elem.attrib, "size",
                              NearestValue(nesting, "geom", "size"))),
         own |-> HasKey(doc.elem.attrib, "size")]

\* The dimensions of a Box, Cylinder or Sphere value, in order.
Dimensions(geometry) ==
    IF geometry.s = "Box"
    THEN [i \in 1..3 |-> geometry.items[4].items[i].n]
    ELSE [i \in 1..(Len(geometry.items) - 3) |-> geometry.items[3 + i].n]

IsPrimitiveGeom ==
    Done /\ fmt = "geom" /\ ~HasKey(doc.elem.attrib, "mesh")

\* C17: the MJCF parser records full extents: a box geom of size (a,b,c)
\* becomes Box (2a,2b,2c), a cylinder geom of size (r,h) Cylinder of radius r
\* and length 2h, a sphere geom of size (r) Sphere of radius r, whether the
\* size is written on the geom or comes from class defaults; a geom without
\* any size becomes the zero shape of its type.
C17_FullExtents ==
    IsPrimitiveGeom =>
        LET g == EffectiveGeom
            n(i) == ToFloat(g.size[i])
        IN  /\ (g.type = "box" /\ Len(g.size) = 3) =>
                  /\ result.ok /\ result.value.s = "Box"
                  /\ Dimensions(result.value) = <<2 * n(1), 2 * n(2), 2 * n(3)>>
            /\ (g.type = "cylinder" /\ Len(g.size) = 2) =>
                  /\ result.ok /\ result.value.s = "Cylinder"
                  /\ Dimensions(result.value) = <<n(1), 2 * n(2)>>
            /\ (g.type = "sphere" /\ Len(g.size) = 1) =>
                  /\ result.ok /\ result.value.s = "Sphere"
                  /\ Dimensions(result.value) = <<n(1)>>
            /\ g.size = <<>> =>
                  /\ result.ok
                  /\ result.value.s = CASE g.type = "box" -> "Box"
                                        [] g.type = "cylinder" -> "Cylinder"
                                        [] g.type = "sphere" -> "Sphere"
                  /\ \A i \in 1..Len(Dimensions(result.value)) :
                        Dimensions(result.value)[i] = 0

\* A cylinder whose type and size both come from its class: radius 2, length 6.
C17_Witness ==
    /\ IsPrimitiveGeom /\ result.ok
    /\ doc.elem.attrib = <<Entry("class", "mid")>>
    /\ EffectiveGeom = [type |-> "cylinder", size |-> <<"2", "3">>, own |-> FALSE]
    /\ result.value.s = "Cylinder"
    /\ Dimensions(result.value) = <<2, 6>>

-----------------------------------------------------------------------------
(* parsers.py: IsaacUSDParser._parse_geometry *)

\* max() of a non-empty set of numbers
MaxOf(values) == CHOOSE v \in values : \A w \in values : w <= v

\* A geometry prim: its type name, the attributes of its schema (0 or "" where
\* the type has none), its name and the name of its parent prim.
GeomPrim(type, radius, height, axis, size, parent_name, name) ==
    [type |-> type, radius |-> radius, height |-> height, axis |-> axis,
     size |-> size, parent_name |-> parent_name, name |-> name]

\* parsers.py lines 1486-1537: IsaacUSDParser._parse_geometry
usd_parse_geometry(geom_prim, scale) ==
    LET meta == <<None, Str("/arm/" \o geom_prim.parent_name \o "/" \o geom_prim.name),
                  Str("arm.usda")>>
    IN  IF geom_prim.type = "Cylinder" THEN
            IF geom_prim.axis = "X"
            THEN Cylinder(meta, Float(geom_prim.radius * MaxOf({scale[2], scale[3]})),
                          Float(geom_prim.height * scale[1]))
            ELSE IF geom_prim.axis = "Y"
            THEN Cylinder(meta, Float(geom_prim.radius * MaxOf({scale[1], scale[3]})),
                          Float(geom_prim.height * scale[2]))
            ELSE Cylinder(meta, Float(geom_prim.radius * MaxOf({scale[1], scale[2]})),
                          Float(geom_prim.height * scale[3]))
        ELSE IF geom_prim.type = "Cube"
        THEN Box(meta, FloatTuple([i \in 1..3 |-> geom_prim.size * scale[i]]))
        ELSE IF geom_prim.type = "Sphere"
        THEN Sphere(meta, Float(geom_prim.radius * MaxOf({scale[i] : i \in 1..3})))
        ELSE IF geom_prim.type = "Mesh"
        THEN Mesh(meta, Str("usd:" \o geom_prim.parent_name \o "/" \o geom_prim.name),
                  FloatTuple(scale))
        ELSE None

MaxScaleFactor == 2

\* xformOp:scale of the parent prim; a negative factor mirrors.
Scales == (-MaxScaleFactor..MaxScaleFactor) \X (-MaxScaleFactor..MaxScaleFactor)
          \X (-MaxScaleFactor..MaxScaleFactor)

GeomPrims ==
    {GeomPrim("Cylinder", r, h, a, 0, "shell", "mesh_0") :
        r \in {1, 2}, h \in {1, 3}, a \in {"X", "Y", "Z"}}
    \cup {GeomPrim("Cube", 0, 0, "", s, "shell", "mesh_0") : s \in {1, 2}}
    \cup {GeomPrim("Sphere", r, 0, "", 0, "shell", "mesh_0") : r \in {1, 2}}
    \cup {GeomPrim("Mesh", 0, 0, "", 0, "shell", "mesh_0"),
          GeomPrim("Capsule", 1, 1, "Z", 0, "shell", "mesh_0")}

InitUsdGeometry ==
    /\ fmt = "usd"
    /\ doc \in [prim : GeomPrims, scale : Scales]
    /\ result = None
    /\ pc = "call"
    /\ old_robot = Unused /\ new_robot = Unused /\ excluded_categories = Unused
    /\ float_tol = Unused /\ old_value = Unused /\ new_value = Unused /\ path = Unused

\* parsers.py lines 1453-1454: the geometry of a prim under its parent's scale
ParseUsdGeometry ==
    /\ pc = "call"
    /\ result' = usd_parse_geometry(doc.prim, doc.scale)
    /\ pc' = "done"
    /\ UNCHANGED <<old_robot, new_robot, excluded_categories, float_tol,
                   old_value, new_value, path, fmt, doc>>

NextUsdGeometry == ParseUsdGeometry

SpecUsdGeometry == InitUsdGeometry /\ [][NextUsdGeometry]_vars

\* The position of axis X, Y or Z in a scale.
AxisIndex(axis) == CASE axis = "X" -> 1 [] axis = "Y" -> 2 [] OTHER -> 3

\* The larger of two numbers.
Larger(a, b) == IF a >= b THEN a ELSE b

\* What the claim says of each geometry type but the Sphere.
ScaledAsClaimed ==
    LET p == doc.prim
        s == doc.scale
        long == AxisIndex(p.axis)
        others == (1..3) \ {long}
        first == CHOOSE i \in others : \A j \in others : i <= j
        second == CHOOSE i \in others : i # first
    IN  /\ p.type = "Cylinder" =>
              Dimensions(result) = <<p.radius * Larger(s[first], s[second]),
                                     p.height * s[long]>>
        /\ p.type = "Cube" =>
              Dimensions(result) = <<p.size * s[1], p.size * s[2], p.size * s[3]>>
        /\ p.type = "Mesh" => result.items[5] = FloatTuple(s)

\* C18: under the parent's scale (sx,sy,sz) a Sphere's radius is multiplied by
\* the largest magnitude of the three factors, a Cylinder's length by the
\* factor of its long axis and its radius by the larger factor of the other
\* two axes, a Cube of size s becomes Box (s*sx, s*sy, s*sz) and a Mesh keeps
\* the scale.
C18_ScaledGeometry ==
    Done =>
        /\ ScaledAsClaimed
        /\ doc.prim.type = "Sphere" =>
              Dimensions(result)
                = <<doc.prim.radius * MaxOf({Abs(doc.scale[i]) : i \in 1..3})>>

\* With no mirroring factor the claim holds for every type.
C18_PositiveScales ==
    (Done /\ \A i \in 1..3 : doc.scale[i] >= 0) =>
        /\ ScaledAsClaimed
        /\ doc.prim.type = "Sphere" =>
              Dimensions(result)
                = <<doc.prim.radius * MaxOf({Abs(doc.scale[i]) : i \in 1..3})>>

\* Under a mirroring scale every type but the Sphere is as the claim says.
C18_OthersAsClaimed == Done => ScaledAsClaimed

\* A sphere of radius 1 under scale (-2, 1, 1) keeps radius 1.
C18_MirroredSphere ==
    /\ Done /\ doc.prim.type = "Sphere" /\ doc.prim.radius = 1
    /\ doc.scale = <<-2, 1, 1>>
    /\ Dimensions(result) = <<1>>

-----------------------------------------------------------------------------
(* parsers.py: parse() of the XML parsers, one step at a time *)

\* pc is the statement parse() is at; an exception leaves pc at the statement
\* that raised it and result at the error, and nothing runs after it.
Running == result = None

InitLoad ==
    /\ \/ fmt = "urdf" /\ doc \in URDFDocs
       \/ fmt = "sdf" /\ doc \in SDFDocs
       \/ fmt = "mjcf" /\ doc \in MJCFDocs
    /\ result = None
    /\ pc = "xml_exists"
    /\ old_robot = Unused /\ new_robot = Unused /\ excluded_categories = Unused
    /\ float_tol = Unused /\ old_value = Unused /\ new_value = Unused /\ path = Unused

\* One checking statement: it raises, or control passes to the next statement.
Check(passes, error, next) ==
    /\ Running
    /\ IF passes THEN pc' = next /\ result' = result
       ELSE pc' = pc /\ result' = Raise(error)
    /\ UNCHANGED <<old_robot, new_robot, excluded_categories, float_tol,
                   old_value, new_value, path, fmt, doc>>

\* parsers.py lines 58-59: if not self.xml_path.exists(): raise
CheckXmlExists ==
    /\ pc = "xml_exists"
    /\ Check(doc.file.xml_exists, "FileNotFoundError: XML file not found", "xsd_exists")

\* The second check left out: control passes on whether or not the schema exists.
CheckXsdExists_skipped ==
    /\ pc = "xsd_exists"
    /\ Check(TRUE, "FileNotFoundError: XSD schema not found", "parse_xml")

\* parsers.py lines 61-62: if not self.xsd_path.exists(): raise
CheckXsdExists ==
    /\ pc = "xsd_exists"
    /\ Check(doc.file.xsd_exists, "FileNotFoundError: XSD schema not found", "parse_xml")

\* parsers.py line 64: etree.parse of the document
ParseXml ==
    /\ pc = "parse_xml"
    /\ Check(doc.file.well_formed, "XMLSyntaxError", "validate")

\* parsers.py lines 66-69: the schema is read and schema.assertValid(self._tree)
ValidateSchema ==
    /\ pc = "validate"
    /\ Check(doc.file.schema_valid, "DocumentInvalid", "traverse")

\* parsers.py lines 147-155, 495-504 and 825-839: the statements of parse() after
\* _load_and_validate has returned (it has, at this pc): the traversal, which
\* returns the Robot or raises the ValueError of the first bad element.
Traverse ==
    /\ pc = "traverse"
    /\ Running
    /\ result' = parse(fmt, doc)
    /\ pc' = IF result'.ok THEN "done" ELSE pc
    /\ UNCHANGED <<old_robot, new_robot, excluded_categories, float_tol,
                   old_value, new_value, path, fmt, doc>>

NextLoad ==
    \/ CheckXmlExists
    \/ CheckXsdExists
    \/ ParseXml
    \/ ValidateSchema
    \/ Traverse

SpecLoad == InitLoad /\ [][NextLoad]_vars

-----------------------------------------------------------------------------
(* Fail-fast order of the XML parsers *)

Raised == ~Running /\ ~result.ok

\* The steps in the order the claim gives them.
StepOrder == <<"xml_exists", "xsd_exists", "parse_xml", "validate", "traverse">>

Steps == {StepOrder[i] : i \in 1..Len(StepOrder)}

StepIndex(step) == CHOOSE i \in 1..Len(StepOrder) : StepOrder[i] = step

\* What each step before the traversal asks of the files on disk.
StepPasses(step) ==
    CASE step = "xml_exists" -> doc.file.xml_exists
      [] step = "xsd_exists" -> doc.file.xsd_exists
      [] step = "parse_xml"  -> doc.file.well_formed
      [] step = "validate"   -> doc.file.schema_valid
      [] step = "traverse"   -> FALSE

\* Each step's own error; the traversal's errors are ValueErrors.
IsStepError(step, error) ==
    CASE step = "xml_exists" -> error = "FileNotFoundError: XML file not found"
      [] step = "xsd_exists" -> error = "FileNotFoundError: XSD schema not found"
      [] step = "parse_xml"  -> error = "XMLSyntaxError"
      [] step = "validate"   -> error = "DocumentInvalid"
      [] step = "traverse"   -> Len(error) > 11 /\ SubSeq(error, 1, 11) = "ValueError:"

\* C19: an XML parser is at a step only when every earlier step of the order
\* (document exists, schema exists, well-formed, schema-valid, traversal) has
\* passed; when it has raised, it stopped at the first step that fails, with
\* that step's own error and without a Robot, whatever the later steps would
\* have found; it returns a Robot only after all four checks passed and the
\* traversal raised nothing.
C19_FailFast ==
    /\ pc \in Steps \cup {"done"}
    /\ pc \in Steps =>
          \A i \in 1..(StepIndex(pc) - 1) : StepPasses(StepOrder[i])
    /\ Raised =>
          /\ pc \in Steps
          /\ ~StepPasses(pc)
          /\ IsStepError(pc, result.error)
          /\ result.robot = Robot("", <<>>, <<>>)
    /\ Done <=> (~Running /\ result.ok)
    /\ Done => \A i \in 1..4 : StepPasses(StepOrder[i])

\* A document with no schema on disk that is also malformed and repeats a link
\* name: the schema error is the one raised, and nothing else.
C19_Witness ==
    /\ Raised /\ pc = "xsd_exists"
    /\ doc.file.xml_exists /\ ~doc.file.xsd_exists /\ ~doc.file.well_formed
    /\ HasDuplicates(LinkNames)

-----------------------------------------------------------------------------
(* Absent values in the recursive comparison *)

\* The changes of the modified items of one diff mapping.
ModifiedChanges(item_diffs_) ==
    UNION {{item_diffs_[i].val.changes[k].val : k \in 1..Len(item_diffs_[i].val.changes)} :
             i \in {j \in 1..Len(item_diffs_) : item_diffs_[j].val.status = "modified"}}

\* C20: the change set of a modified link or joint never holds a change whose
\* old and new values are both None: a field unset in both robots is no change.
C20_NoChangeBetweenNones ==
    Done => \A c \in ModifiedChanges(result.link_diffs) \cup ModifiedChanges(result.joint_diffs) :
                ~(IsNone(c.old_value) /\ IsNone(c.new_value))

\* The other half of the claim: None on exactly one side gives exactly the one
\* change at the path, with both values as passed.
C20_OneChangeForOneNone ==
    (Done /\ IsNone(old_value) # IsNone(new_value))
        => result = <<Entry(path, Change(old_value, new_value))>>

\* compare_values(None, None, path) returns a change at path.
C20_NoneAgainstNone ==
    Done /\ IsNone(old_value) /\ IsNone(new_value)
         /\ result = <<Entry(path, Change(None, None))>>

-----------------------------------------------------------------------------
(* compare_values on lists, tuples and dataclasses *)

MaxListLen == 2

MaxTupleLen == 2

\* What the lists of the model hold: collisions and visuals, and for the
\* generic rule also floats.
ListElements ==
    {Float(1), Float(2), BoxCollision(NoMeta, 1), BoxCollision(NoMeta, 2)}

ListInputs == {List(items) : items \in UNION {[1..n -> ListElements] : n \in 0..MaxListLen}}

\* Tuples of floats; 9 and 10 are within a tolerance of 1/10, 20 is not.
TupleElements == {Float(9), Float(10), Float(20)}

TupleInputs ==
    {Tuple(items) : items \in UNION {[1..n -> TupleElements] : n \in 1..MaxTupleLen}}

\* The four geometry classes, and collisions holding them in the geometry field.
GeometryInputs ==
    {Cube(1), Cube(2), Cylinder(NoMeta, Float(1), Float(1)),
     Cylinder(NoMeta, Float(2), Float(1)), Sphere(NoMeta, Float(1)),
     Mesh(NoMeta, Str("hand.stl"), FloatTuple(<<1, 1, 1>>))}

CollisionInputs == {Collision(NoMeta, None, IdentityPose, g) : g \in GeometryInputs}

StructureInputs == ListInputs \cup TupleInputs \cup GeometryInputs \cup CollisionInputs

InitStructures ==
    /\ old_value \in StructureInputs
    /\ new_value \in StructureInputs
    /\ path \in {"", "collisions"}
    /\ float_tol = DefaultTol
    /\ result = None
    /\ pc = "call"
    /\ old_robot = Unused /\ new_robot = Unused /\ excluded_categories = Unused
    /\ fmt = Unused /\ doc = Unused

SpecStructures == InitStructures /\ [][NextValues]_vars

-----------------------------------------------------------------------------
(* Lists *)

\* The entries of a change mapping, as a set.
Entries(changes) == {changes[i] : i \in 1..Len(changes)}

\* s starts with prefix
StartsWith(s, prefix) == Len(s) >= Len(prefix) /\ SubSeq(s, 1, Len(prefix)) = prefix

\* p[i], written out
Indexed(p, i) == p \o "[" \o ToString(i) \o "]"

CommonPrefix == 0..(Min(Len(old_value.items), Len(new_value.items)) - 1)

\* C21: for two lists at path p, a change Change(len(old), len(new)) is at p iff
\* the lengths differ; the entries below p[i], for each index i of the common
\* prefix, are those of comparing the two i-th elements under p[i], whether or
\* not the lengths differ; and there is no other entry, so none for an index
\* beyond the common prefix.
C21_ListPrefix ==
    (Done /\ old_value.k = "list" /\ new_value.k = "list")
        => /\ HasKey(result, path) <=> Len(old_value.items) # Len(new_value.items)
           /\ HasKey(result, path) =>
                DictGetItem(result, path) =
                    Change(PyInt(Len(old_value.items)), PyInt(Len(new_value.items)))
           /\ \A i \in CommonPrefix :
                {e \in Entries(result) : StartsWith(e.key, Indexed(path, i))}
                    = Entries(compare_values(old_value.items[i + 1], new_value.items[i + 1],
                                             Indexed(path, i), float_tol))
           /\ \A e \in Entries(result) :
                \/ e.key = path
                \/ \E i \in CommonPrefix : StartsWith(e.key, Indexed(path, i))
           /\ Cardinality(Entries(result)) = Len(result)

\* [box(1), box(1)] against [box(2)]: the length change and the change inside
\* element 0, and nothing for element 1.
C21_Witness ==
    /\ Done /\ path = "collisions"
    /\ old_value = List(<<BoxCollision(NoMeta, 1), BoxCollision(NoMeta, 1)>>)
    /\ new_value = List(<<BoxCollision(NoMeta, 2)>>)
    /\ {"collisions", "collisions[0].geometry.size"} \subseteq Keys(result)
    /\ DictGetItem(result, "collisions") = Change(PyInt(2), PyInt(1))
    /\ \A k \in Keys(result) : ~StartsWith(k, "collisions[1]")

-----------------------------------------------------------------------------
(* Tuples *)

\* Every pair of elements of two float tuples of one length is within tolerance.
AllWithin(old, new, tol) ==
    \A i \in 1..Len(old.items) : WithinRelative(old.items[i].n, new.items[i].n, tol)

\* C22: for two tuples at path p the result is one change at p carrying both
\* whole tuples when the lengths differ or some pair of elements differs beyond
\* the tolerance, and empty otherwise; it never has a path p[i].
C22_TupleAsWhole ==
    (Done /\ old_value.k = "tuple" /\ new_value.k = "tuple")
        => result = IF Len(old_value.items) = Len(new_value.items)
                       /\ AllWithin(old_value, new_value, float_tol)
                    THEN <<>>
                    ELSE <<Entry(path, Change(old_value, new_value))>>

\* (9, 9) against (10, 20) with tolerance 1/10: one change at the path with the two tuples.
C22_Witness ==
    /\ Done /\ path = "collisions" /\ float_tol = Tol(1, 10)
    /\ old_value = FloatTuple(<<9, 9>>) /\ new_value = FloatTuple(<<10, 20>>)
    /\ result = <<Entry("collisions", Change(old_value, new_value))>>

-----------------------------------------------------------------------------
(* Dataclasses of different classes *)

\* The entries at the path p or below it (p.field, p[i])
EntriesAt(changes, p) ==
    {e \in Entries(changes) :
        e.key = p \/ StartsWith(e.key, p \o ".") \/ StartsWith(e.key, p \o "[")}

GeometryPath == IF path = "" THEN "geometry" ELSE path \o ".geometry"

\* The geometry field of a Collision
GeometryOf(collision) == collision.items[6]

\* C23: two dataclass instances of different classes give exactly one change, at
\* the path they are compared at, carrying the two whole values; in particular
\* two collisions whose geometry fields hold different geometry classes have,
\* at or below the geometry field's path, that one change and no other.
C23_WholeValueReplacement ==
    /\ (Done /\ old_value.k = "dc" /\ new_value.k = "dc" /\ old_value.s # new_value.s)
          => result = <<Entry(path, Change(old_value, new_value))>>
    /\ (Done /\ old_value.k = "dc" /\ new_value.k = "dc"
             /\ old_value.s = "Collision" /\ new_value.s = "Collision"
             /\ GeometryOf(old_value).s # GeometryOf(new_value).s)
          => EntriesAt(result, GeometryPath) =
                {Entry(GeometryPath, Change(GeometryOf(old_value), GeometryOf(new_value)))}

\* A collision with a Box against the same collision with a Cylinder
C23_Witness ==
    /\ Done /\ path = "collisions"
    /\ old_value = Collision(NoMeta, None, IdentityPose, Cube(1))
    /\ new_value = Collision(NoMeta, None, IdentityPose, Cylinder(NoMeta, Float(1), Float(1)))
    /\ HasKey(result, "collisions.geometry")
    /\ DictGetItem(result, "collisions.geometry") =
          Change(Cube(1), Cylinder(NoMeta, Float(1), Float(1)))

-----------------------------------------------------------------------------
(* SDF link frames *)

\* A valid file: every check of _load_and_validate passes.
ValidXmlFile(name) ==
    [name |-> name, xml_exists |-> TRUE, xsd_exists |-> TRUE, well_formed |-> TRUE,
     schema_valid |-> TRUE]

\* Joints named j or k from link w to link a or b, with the pose their parent asks for.
SdfChildJoints ==
    UNION {{[i \in 1..n |-> [name |-> cfg[i][1], type |-> "fixed", parent |-> "w",
                             child |-> cfg[i][2], pose |-> PoseElem("w", TRUE)]] :
              cfg \in [1..n -> {"j", "k"} \X {"a", "b"}]} : n \in 0..MaxElements}

\* The pose of a link element: absent, without relative_to, relative to j or to
\* k, and with text that is not the identity.
SdfLinkPoses ==
    {NoPose, PoseElem("", TRUE), PoseElem("j", TRUE), PoseElem("k", TRUE),
     PoseElem("j", FALSE)}

SdfPosedLinks ==
    UNION {{[i \in 1..n |-> [name |-> cfg[i][1], pose |-> cfg[i][2]]] :
              cfg \in [1..n -> {"a", "b"} \X SdfLinkPoses]} : n \in 0..MaxElements}

WithLines(elems, first_line) ==
    [i \in 1..Len(elems) |-> elems[i] @@ [line |-> first_line + i]]

SdfLinkDocs ==
    {[file |-> ValidXmlFile("arm.sdf"), name |-> "arm",
      links |-> WithLines(l, 2), joints |-> WithLines(j, 2 + Len(l))] :
        l \in SdfPosedLinks, j \in SdfChildJoints}

InitSdfLinks ==
    /\ fmt = "sdf" /\ doc \in SdfLinkDocs
    /\ result = None
    /\ pc = "call"
    /\ old_robot = Unused /\ new_robot = Unused /\ excluded_categories = Unused
    /\ float_tol = Unused /\ old_value = Unused /\ new_value = Unused /\ path = Unused

SpecSdfLinks == InitSdfLinks /\ [][NextParse]_vars

\* The name of the first joint element, in document order, whose child is the
\* link; "" when the link is no joint's child.
FirstParentJoint(name) ==
    LET found == {i \in 1..Len(doc.joints) : doc.joints[i].child = name}
    IN  IF found = {} THEN ""
        ELSE doc.joints[CHOOSE i \in found : \A j \in found : i <= j].name

\* (a) a link that is some joint's child has a pose relative to that joint
LinkPoseRelatesToJoint(link_elem) ==
    FirstParentJoint(link_elem.name) # ""
        => link_elem.pose.present
           /\ link_elem.pose.relative_to = FirstParentJoint(link_elem.name)

\* (b) a pose, when given, is the identity
LinkPoseIsIdentity(link_elem) == link_elem.pose.present => link_elem.pose.identity

\* C24: on a document that loads and whose link and joint names are not repeated
\* (and whose joints are well posed), SDFParser returns a Robot iff every link
\* that is some joint's child has a pose element whose relative_to is the name
\* of the first joint whose child it is, and every link's pose is the identity
\* when given; otherwise it raises and returns no Robot. A link that is no
\* joint's child is accepted with or without relative_to.
C24_LinkPoses ==
    (Done /\ fmt = "sdf" /\ Loads
          /\ ~HasDuplicates(LinkNames) /\ ~HasDuplicates(JointNames)
          /\ \A i \in 1..Len(doc.joints) : JointPoseRelatesToParent(doc.joints[i]))
        => /\ result.ok <=>
                \A i \in 1..Len(doc.links) :
                    LinkPoseRelatesToJoint(doc.links[i]) /\ LinkPoseIsIdentity(doc.links[i])
           /\ ~result.ok =>
                /\ result.robot = Robot("", <<>>, <<>>)
                /\ Len(result.error) > 11 /\ SubSeq(result.error, 1, 11) = "ValueError:"

\* Link b is the child of joint j and then of joint k, and its pose is relative
\* to k: the parser asks for j.
C24_Witness ==
    /\ Done /\ Len(doc.joints) = 2 /\ Len(doc.links) = 1
    /\ doc.joints[1].name = "j" /\ doc.joints[2].name = "k"
    /\ doc.joints[1].child = "b" /\ doc.joints[2].child = "b"
    /\ doc.links[1].name = "b" /\ doc.links[1].pose = PoseElem("k", TRUE)
    /\ result = Raise("ValueError: Link 'b' pose must have relative_to='j'")

\* A link that is no joint's child, with a pose without relative_to, is accepted.
C24_FreeLinkAccepted ==
    /\ Done /\ result.ok /\ Len(doc.links) = 1 /\ doc.joints = <<>>
    /\ doc.links[1].pose = PoseElem("", TRUE)

-----------------------------------------------------------------------------
(* parsers.py: MJCFParser, the joints of the body tree *)

\* A body element with its pos attribute, its first freejoint and first joint
\* child (NoElem when it has none) and its nested bodies.
BodyElem(name, pos, line, xpath, freejoint, joint, children) ==
    [name |-> name, attrib |-> IF pos = "" THEN <<>> ELSE <<Entry("pos", pos)>>,
     line |-> line, xpath |-> xpath, freejoint |-> freejoint, joint |-> joint,
     children |-> children]

\* parsers.py lines 1202-1271: MJCFParser._create_joint
create_joint(body_elem, parent_name, child_name, classes, file) ==
    LET origin == mjcf_parse_origin(body_elem, <<>>, file)
        free_meta == get_source_metadata(body_elem.line + 1,
                                         body_elem.xpath \o "/freejoint", file)
        joint_elem == Element(body_elem.joint.attrib, body_elem.line + 1,
                              body_elem.xpath \o "/joint")
        joint_meta == get_source_metadata(joint_elem.line, joint_elem.xpath, file)
        attrs == joint_attributes(joint_elem, classes)
    IN  IF body_elem.freejoint.present THEN
            IF ~origin.ok THEN Raises(origin.error)
            ELSE Returns(Joint(free_meta,
                               AttrGet(body_elem.freejoint.attrib, "name",
                                       child_name \o "_freejoint"),
                               "floating", parent_name, child_name, origin.value,
                               DefaultAxis, None))
        ELSE IF body_elem.joint.present THEN
            IF ~attrs.ok /\ SubSeq(attrs.error, 1, 8) = "KeyError" THEN Raises(attrs.error)
            ELSE IF ~origin.ok THEN Raises(origin.error)
            ELSE IF ~attrs.ok THEN Raises(attrs.error)
            ELSE Returns(Joint(joint_meta,
                               AttrGet(body_elem.joint.attrib, "name",
                                       child_name \o "_joint"),
                               attrs.value.type, parent_name, child_name, origin.value,
                               attrs.value.axis,
                               Limit(joint_meta, attrs.value.lower, attrs.value.upper,
                                     Float(0), Float(0))))
        ELSE IF ~origin.ok THEN Raises(origin.error)
        ELSE Returns(Joint(get_source_metadata(body_elem.line, body_elem.xpath, file),
                           child_name \o "_fixed", "fixed", parent_name, child_name,
                           origin.value, DefaultAxis, None))

RECURSIVE parse_bodies(_, _, _, _, _, _)
\* parsers.py lines 1008-1028: MJCFParser._parse_bodies, from body i of the parent
\* element on; parent_body_name is "" for the worldbody; acc holds the links and
\* joints dicts, or the error raised.
parse_bodies(bodies, i, parent_body_name, acc, classes, file) ==
    IF ~acc.ok \/ i > Len(bodies) THEN acc
    ELSE LET body_elem == bodies[i]
             body_name == body_elem.name
             links == DictSet(acc.value.links, body_name, mjcf_create_link(body_elem, file))
             joint == create_joint(body_elem, parent_body_name, body_name, classes, file)
         IN  IF body_name = ""
             THEN parse_bodies(bodies, i + 1, parent_body_name, acc, classes, file)
             ELSE IF parent_body_name # "" /\ ~joint.ok THEN Raises(joint.error)
             ELSE parse_bodies(bodies, i + 1, parent_body_name,
                    parse_bodies(body_elem.children, 1, body_name,
                        Returns([links |-> links,
                                 joints |-> IF parent_body_name # ""
                                            THEN DictSet(acc.value.joints,
                                                         JointName(joint.value), joint.value)
                                            ELSE acc.value.joints]),
                        classes, file),
                    classes, file)

-----------------------------------------------------------------------------
(* Body trees *)

\* default > slider: a class whose joints slide in the range 1..2
SliderClasses ==
    parse_classes(<<Default("slider", NoElem, Elem(JointAttrib("slide", "", "1 2")), <<>>)>>)

\* What a body holds besides its name: pos, freejoint child, joint child.
BodyContents ==
    {<<"", NoElem, NoElem>>,
     <<"1 2 3", NoElem, NoElem>>,
     <<"", Elem(<<>>), NoElem>>,
     <<"", Elem(<<>>), Elem(<<>>)>>,
     <<"1 2 3", NoElem, Elem(<<>>)>>,
     <<"", NoElem, Elem(JointAttrib("slide", "0 1 0", "-1 1"))>>,
     <<"", NoElem, Elem(JointAttrib("ball", "", ""))>>,
     <<"", NoElem, Elem(<<Entry("name", "b_fixed")>>)>>,
     <<"", NoElem, Elem(<<Entry("class", "slider")>>)>>}

NestedBodyConfigs == UNION {[1..n -> BodyNames \X BodyContents] : n \in 0..MaxBodies}

\* worldbody > base (with or without a freejoint) > the bodies of cfg, side by side
SiblingTree(base_free, cfg) ==
    <<BodyElem("base", "", 3, "/mujoco/worldbody/body", base_free, NoElem,
               [i \in 1..Len(cfg) |->
                   BodyElem(cfg[i][1], cfg[i][2][1], 3 + 3 * i,
                            XPath("/mujoco/worldbody/body", "body", i, Len(cfg)),
                            cfg[i][2][2], cfg[i][2][3], <<>>)])>>

\* worldbody > base > first > second
ChainTree(first, second) ==
    <<BodyElem("base", "", 3, "/mujoco/worldbody/body", NoElem, NoElem,
               <<BodyElem(first[1], first[2][1], 6, "/mujoco/worldbody/body/body",
                          first[2][2], first[2][3],
                          <<BodyElem(second[1], second[2][1], 9,
                                     "/mujoco/worldbody/body/body/body",
                                     second[2][2], second[2][3], <<>>)>>)>>)>>

BodyTrees ==
    {SiblingTree(f, cfg) : f \in {NoElem, Elem(<<>>)}, cfg \in NestedBodyConfigs}
    \cup {ChainTree(c, d) : c, d \in BodyNames \X BodyContents}

InitBodies ==
    /\ fmt = "mjcf" /\ doc \in BodyTrees
    /\ result = None
    /\ pc = "call"
    /\ old_robot = Unused /\ new_robot = Unused /\ excluded_categories = Unused
    /\ float_tol = Unused /\ old_value = Unused /\ new_value = Unused /\ path = Unused

\* parsers.py line 837: self._parse_bodies(worldbody, None, links, joints)
ParseBodies ==
    /\ pc = "call"
    /\ result' = parse_bodies(doc, 1, "", Returns([links |-> <<>>, joints |-> <<>>]),
                              SliderClasses, MjcfFile)
    /\ pc' = "done"
    /\ UNCHANGED <<old_robot, new_robot, excluded_categories, float_tol,
                   old_value, new_value, path, fmt, doc>>

NextBodies == ParseBodies

SpecBodies == InitBodies /\ [][NextBodies]_vars

-----------------------------------------------------------------------------
(* MJCF joint synthesis *)

RECURSIVE NestedBodies(_, _, _)
\* The named bodies nested directly in a named body, with the name of the
\* enclosing body, in document order (parent "" is the worldbody).
NestedBodies(bodies, i, parent) ==
    IF i > Len(bodies) THEN <<>>
    ELSE IF bodies[i].name = "" THEN NestedBodies(bodies, i + 1, parent)
    ELSE (IF parent # "" THEN <<[parent |-> parent, body |-> bodies[i]]>> ELSE <<>>)
         \o NestedBodies(bodies[i].children, 1, bodies[i].name)
         \o NestedBodies(bodies, i + 1, parent)

\* An attribute of the body's joint element as written, or as its class gives it.
JointAttr(body_elem, key) ==
    GetOr(body_elem.joint.attrib, key,
          IF AttrGet(body_elem.joint.attrib, "class", "") = "slider"
          THEN AttrGet(JointAttrib("slide", "", "1 2"), key, "")
          ELSE "")

\* The fields of a Joint value
JointType(joint) == joint.items[5].s

JointParent(joint) == joint.items[6].s

JointChild(joint) == joint.items[7].s

JointOrigin(joint) == joint.items[8]

JointAxis(joint) == joint.items[9]

JointLimit(joint) == joint.items[10]

\* The joint is the one the claim gives the nested body.
SynthesizedFor(joint, nested) ==
    LET b == nested.body
    IN  /\ JointParent(joint) = nested.parent
        /\ JointChild(joint) = b.name
        /\ PoseXyz(JointOrigin(joint)) =
              (IF AttrGet(b.attrib, "pos", "") = "1 2 3" THEN FloatTuple(<<1, 2, 3>>)
               ELSE FloatTuple(<<0, 0, 0>>))
        /\ IF b.freejoint.present THEN JointType(joint) = "floating"
           ELSE IF b.joint.present THEN
               /\ JointType(joint) =
                     (CASE JointAttr(b, "type") \in {"", "hinge"} -> "revolute"
                        [] JointAttr(b, "type") = "slide" -> "prismatic"
                        [] JointAttr(b, "type") = "ball" -> "continuous")
               /\ JointAxis(joint) =
                     (IF JointAttr(b, "axis") = "0 1 0" THEN FloatTuple(<<0, 1, 0>>)
                      ELSE FloatTuple(<<0, 0, 1>>))
               /\ ~IsNone(JointLimit(joint))
               /\ <<JointLimit(joint).items[4], JointLimit(joint).items[5]>> =
                     (CASE JointAttr(b, "range") = "" -> <<Float(0), Float(0)>>
                        [] JointAttr(b, "range") = "-1 1" -> <<Float(-1), Float(1)>>
                        [] JointAttr(b, "range") = "1 2" -> <<Float(1), Float(2)>>)
           ELSE /\ JointType(joint) = "fixed"
                /\ JointName(joint) = b.name \o "_fixed"

\* The joints of the result that a nested body accounts for
JointsFor(nested) ==
    {k \in 1..Len(result.value.joints) :
        SynthesizedFor(result.value.joints[k].val, nested)}

\* C25: every named body nested directly in a named body has its own joint in
\* the result, of the type, axis, limit, name and origin the rules give it, and
\* the result has no other joint: the joints are as many as those bodies, so
\* bodies directly below the worldbody have none.
C25_OneJointPerNestedBody ==
    (Done /\ result.ok) =>
        LET nested == NestedBodies(doc, 1, "")
        IN  /\ \A k \in 1..Len(nested) : JointsFor(nested[k]) # {}
            /\ Len(result.value.joints) = Len(nested)

\* The names under which the joints and links are stored
StoredJointName(nested) ==
    LET b == nested.body
    IN  IF b.freejoint.present
        THEN AttrGet(b.freejoint.attrib, "name", b.name \o "_freejoint")
        ELSE IF b.joint.present THEN AttrGet(b.joint.attrib, "name", b.name \o "_joint")
        ELSE b.name \o "_fixed"

DistinctJointNames ==
    LET nested == NestedBodies(doc, 1, "")
    IN  \A i, j \in 1..Len(nested) :
            StoredJointName(nested[i]) = StoredJointName(nested[j]) => i = j

\* The rules hold whenever no two nested bodies store their joint under one name.
C25_DistinctNames ==
    (Done /\ result.ok /\ DistinctJointNames) =>
        LET nested == NestedBodies(doc, 1, "")
        IN  /\ \A k \in 1..Len(nested) : Cardinality(JointsFor(nested[k])) >= 1
            /\ Len(result.value.joints) = Len(nested)
            /\ \A k \in 1..Len(result.value.joints) :
                  \E n \in 1..Len(nested) :
                      /\ SynthesizedFor(result.value.joints[k].val, nested[n])
                      /\ result.value.joints[k].key = StoredJointName(nested[n])

\* base > a with <joint name="b_fixed"/>, then b without a joint element: the
\* fixed joint of b replaces the joint of a.
C25_JointReplaced ==
    /\ Done /\ result.ok
    /\ Len(NestedBodies(doc, 1, "")) = 2
    /\ Len(doc[1].children) = 2
    /\ doc[1].children[1].name = "a" /\ doc[1].children[2].name = "b"
    /\ Len(result.value.joints) = 1
    /\ JointChild(result.value.joints[1].val) = "b"

\* A document on which the rules are seen at work: a slide joint with its own
\* axis and range, and a body without joint element.
C25_RulesApplied ==
    /\ Done /\ result.ok /\ DistinctJointNames
    /\ Len(result.value.joints) = 2
    /\ {JointType(result.value.joints[k].val) : k \in 1..2} = {"prismatic", "fixed"}

-----------------------------------------------------------------------------
(* MJCF orientation: element against class defaults *)

\* The orientation written on the element itself: its quat attribute, else the
\* quaternion of its euler attribute; <<>> when it writes neither.
ExplicitOrientation(attrib) ==
    IF AttrGet(attrib, "quat", "") # ""
    THEN FloatTuple(parse_vector(AttrGet(attrib, "quat", ""), 4).value)
    ELSE IF AttrGet(attrib, "euler", "") # ""
    THEN rpy_to_quat(parse_vector(AttrGet(attrib, "euler", ""), 3).value)
    ELSE <<>>

\* C26: an MJCF element that writes quat or euler itself resolves to that
\* orientation, whatever orientation its class defaults supply.
C26_ExplicitOrientationWins ==
    (Done /\ fmt = "mjcf" /\ result.ok /\ ExplicitOrientation(doc.elem.attrib) # <<>>)
        => PoseQuat(result.value) = ExplicitOrientation(doc.elem.attrib)

\* The same over class defaults that supply no quat: the element's own
\* orientation wins over an inherited euler.
C26_OverClassEuler ==
    (Done /\ fmt = "mjcf" /\ result.ok /\ ExplicitOrientation(doc.elem.attrib) # <<>>
          /\ AttrGet(doc.class_defaults, "quat", "") = "")
        => PoseQuat(result.value) = ExplicitOrientation(doc.elem.attrib)

\* euler="0 0 2" on the element, quat="0 0 1 0" in its class: the class's quat
\* is stored.
C26_ClassQuatStored ==
    /\ Done /\ fmt = "mjcf" /\ result.ok
    /\ doc.elem.attrib = PoseAttrib("", "", "0 0 2")
    /\ doc.class_defaults = PoseAttrib("", "0 0 1 0", "")
    /\ PoseQuat(result.value) = FloatTuple(<<0, 0, 1, 0>>)

\* euler on the element against euler in the class: the element's is stored.
C26_ElementEulerStored ==
    /\ Done /\ fmt = "mjcf" /\ result.ok
    /\ doc.elem.attrib = PoseAttrib("", "", "0 0 2")
    /\ doc.class_defaults = PoseAttrib("3 2 1", "", "0 5 0")
    /\ PoseQuat(result.value) = rpy_to_quat(<<0, 0, 2>>)

-----------------------------------------------------------------------------
(* Shape of the item diffs *)

\* One mapping of item diffs is well formed over the names of the two inputs.
WellFormed(item_diffs_, old_items, new_items) ==
    \A i \in 1..Len(item_diffs_) :
        LET e == item_diffs_[i]
        IN  /\ e.val.status \in {"added", "removed", "modified"}
            /\ e.val.status = "modified" <=> e.val.changes # <<>>
            /\ e.val.status \in {"added", "removed"} <=> e.val.changes = <<>>
            /\ e.key = e.val.name
            /\ e.key \in Keys(old_items) \cup Keys(new_items)

\* C27: in every result of compare_robots, filtered or not, an item diff is
\* 'modified' iff its changes are non-empty and 'added' or 'removed' iff they
\* are empty, is stored under its own name, and is named after a link (joint)
\* of at least one input robot.
C27_WellFormedDiffs ==
    Done => /\ WellFormed(result.link_diffs, old_robot.links, new_robot.links)
            /\ WellFormed(result.joint_diffs, old_robot.joints, new_robot.joints)

\* A filtered result in which a modified link lost some of its changes and kept
\* others, next to a link that is added or removed.
C27_Witness ==
    /\ Done /\ ActiveCategories # {} /\ "kinematic" \notin ActiveCategories
    /\ \E i \in 1..Len(result.link_diffs) :
          /\ result.link_diffs[i].val.status = "modified"
          /\ Len(result.link_diffs[i].val.changes)
                < Len(DictGetItem(Unfiltered.link_diffs, result.link_diffs[i].key).changes)
    /\ \E i \in 1..Len(result.link_diffs) :
          result.link_diffs[i].val.status \in {"added", "removed"}

-----------------------------------------------------------------------------
(* Swapping the arguments *)

MirrorStatus(status) ==
    CASE status = "added" -> "removed"
      [] status = "removed" -> "added"
      [] OTHER -> status

\* The item diffs with added and removed exchanged and every Change turned round
MirrorItemDiffs(item_diffs_) ==
    [i \in 1..Len(item_diffs_) |->
        Entry(item_diffs_[i].key,
              ItemDiff(item_diffs_[i].val.name, MirrorStatus(item_diffs_[i].val.status),
                       [k \in 1..Len(item_diffs_[i].val.changes) |->
                           Entry(item_diffs_[i].val.changes[k].key,
                                 Change(item_diffs_[i].val.changes[k].val.new_value,
                                        item_diffs_[i].val.changes[k].val.old_value))]))]

\* compare_robots on the same inputs in the other order
Swapped == compare_robots(new_robot, old_robot, excluded_categories, float_tol)

\* C28: compare_robots(B, A, C, t) is compare_robots(A, B, C, t) mirrored: the
\* same link and joint keys, added and removed exchanged, modified items with
\* the same change paths, and old_value and new_value of every Change exchanged.
C28_Mirror ==
    Done => /\ Swapped.link_diffs = MirrorItemDiffs(result.link_diffs)
            /\ Swapped.joint_diffs = MirrorItemDiffs(result.joint_diffs)
            /\ Swapped.old_name = result.new_name /\ Swapped.new_name = result.old_name

\* A pair with an added link or joint and a modified link in which a value is
\* replaced by another.
C28_Witness ==
    /\ Done
    /\ "added" \in Statuses(result.link_diffs) \cup Statuses(result.joint_diffs)
    /\ \E i \in 1..Len(result.link_diffs) :
          /\ result.link_diffs[i].val.status = "modified"
          /\ \E k \in 1..Len(result.link_diffs[i].val.changes) :
                LET c == result.link_diffs[i].val.changes[k].val
                IN  ~IsNone(c.old_value) /\ ~IsNone(c.new_value)
                    /\ c.old_value # c.new_value

-----------------------------------------------------------------------------
(* parsers.py: MJCFParser, the walks along the parent chain of a class *)

\* How many frames _get_class_defaults may stack before Python raises
\* RecursionError (scaled down from sys.getrecursionlimit()).
MaxDepth == 6

\* self._classes of the document
Classes == parse_classes(doc.defaults)

\* parsers.py line 1099: self._classes.get(current, {}).get("parent"), "" for None
ClassParent(classes, current) ==
    IF HasKey(classes, current) THEN DictGetItem(classes, current).parent ELSE ""

\* default > first > second > third: nested default elements, each with a geom
\* child; a class attribute that is not written is "".
DefaultChain(names) ==
    IF Len(names) = 0 THEN <<>>
    ELSE <<Default(names[1], Elem(Attrib("box", "")), NoElem,
            IF Len(names) = 1 THEN <<>>
            ELSE <<Default(names[2], Elem(Attrib("", "1 2 3")), NoElem,
                    IF Len(names) = 2 THEN <<>>
                    ELSE <<Default(names[3], Elem(Attrib("sphere", "")), NoElem, <<>>)>>)>>)>>

ChainClassAttrs == {"", "collision", "a", "b"}

DefaultChains == {DefaultChain(names) : names \in UNION {[1..n -> ChainClassAttrs] : n \in 0..3}}

LookupNames == {"main", "collision", "a", "b", "ghost"}

\* old_value is the loop's (the innermost frame's) class name, new_value the
\* number of frames below the first.
InitLookup ==
    /\ \/ /\ fmt = "is_descendant"
          /\ doc \in [defaults : DefaultChains, class_name : LookupNames,
                      target : {"collision", "visual"}]
       \/ /\ fmt = "get_class_defaults"
          /\ doc \in [defaults : DefaultChains, class_name : LookupNames,
                      target : {"geom", "joint"}]
    /\ old_value = doc.class_name
    /\ new_value = 0
    /\ result = None
    /\ pc = "call"
    /\ old_robot = Unused /\ new_robot = Unused /\ excluded_categories = Unused
    /\ float_tol = Unused /\ path = Unused

\* parsers.py lines 1096-1098 and 1100: the test of the while loop of is_descendant and
\* the comparison with the target; pc "loop" is the end of the loop body.
IsDescendantTest ==
    /\ pc = "call" /\ fmt = "is_descendant"
    /\ IF old_value = "" THEN result' = Returns(FALSE) /\ pc' = "done"
       ELSE IF old_value = doc.target THEN result' = Returns(TRUE) /\ pc' = "done"
       ELSE result' = result /\ pc' = "loop"
    /\ UNCHANGED <<old_robot, new_robot, excluded_categories, float_tol,
                   old_value, new_value, path, fmt, doc>>

\* parsers.py line 1099: current becomes the parent of its class, and the loop
\* is tested again.
IsDescendantStep ==
    /\ pc = "loop" /\ fmt = "is_descendant"
    /\ old_value' = ClassParent(Classes, old_value)
    /\ pc' = "call"
    /\ UNCHANGED <<old_robot, new_robot, excluded_categories, float_tol,
                   result, new_value, path, fmt, doc>>

\* parsers.py lines 890-902: one call of _get_class_defaults: it returns {} and
\* the frames below stack their class data over it, or it calls itself on the
\* parent, or the interpreter refuses another frame.
GetClassDefaultsCall ==
    /\ pc = "call" /\ fmt = "get_class_defaults"
    /\ IF old_value = "" \/ ~HasKey(Classes, old_value) THEN
           /\ result' = Returns(get_class_defaults(Classes, doc.class_name, doc.target))
           /\ pc' = "done" /\ old_value' = old_value /\ new_value' = new_value
       ELSE IF new_value >= MaxDepth THEN
           /\ result' = Raises("RecursionError")
           /\ pc' = "done" /\ old_value' = old_value /\ new_value' = new_value
       ELSE /\ result' = result /\ pc' = pc
            /\ old_value' = ClassParent(Classes, old_value)
            /\ new_value' = new_value + 1
    /\ UNCHANGED <<old_robot, new_robot, excluded_categories, float_tol,
                   path, fmt, doc>>

NextLookup == IsDescendantTest \/ IsDescendantStep \/ GetClassDefaultsCall

\* The interpreter keeps running the loop or the call it is in.
SpecLookup == InitLookup /\ [][NextLookup]_vars /\ WF_vars(NextLookup)

-----------------------------------------------------------------------------
(* Termination of class resolution *)

RECURSIVE ReachesRoot(_, _, _)
\* The parent chain of a class ends within n steps.
ReachesRoot(classes, class_name, n) ==
    \/ class_name = ""
    \/ ~HasKey(classes, class_name)
    \/ n > 0 /\ ReachesRoot(classes, ClassParent(classes, class_name), n - 1)

\* The parent chain recorded by _parse_defaults has no cycle.
Acyclic(classes) == \A c \in Keys(classes) : ReachesRoot(classes, c, Len(classes))

\* C29: for every default-class tree, nested defaults that repeat or omit the
\* class name included, both walks over the parent chain come to an end: the
\* loop of is_descendant and the recursion of _get_class_defaults are left.
C29_Terminates == <>Done

\* On the trees whose parent chain has no cycle both walks end, and with a
\* value: is_descendant returns and _get_class_defaults returns its defaults.
C29_AcyclicTerminates == Acyclic(Classes) => <>(Done /\ result.ok)

\* default > a > b > a: class a has parent b and class b has parent a, and the
\* loop of is_descendant('a') for target 'visual' is back at a.
C29_Cycle ==
    /\ fmt = "is_descendant" /\ pc = "call" /\ ~Acyclic(Classes)
    /\ doc.defaults = DefaultChain(<<"a", "b", "a">>)
    /\ doc.class_name = "b" /\ doc.target = "visual" /\ old_value = "b"
    /\ ClassParent(Classes, "a") = "b" /\ ClassParent(Classes, "b") = "a"

\* Nested defaults that both omit the class attribute: class main is its own
\* parent and _get_class_defaults('main') ends in RecursionError.
C29_RecursionError ==
    /\ fmt = "get_class_defaults" /\ Done /\ result = Raises("RecursionError")
    /\ doc.defaults = DefaultChain(<<"", "">>) /\ doc.class_name = "main"

-----------------------------------------------------------------------------
(* formatters.py: the counts of StatusFormatter and GitFormatter *)

\* formatters.py line 115: Counter(item_diff.status for item_diff in item_diffs)[status]
Counter(item_diffs_, status) ==
    Cardinality({i \in 1..Len(item_diffs_) : item_diffs_[i].val.status = status})

\* formatters.py lines 105-116: StringFormatter._count_itemdiffs_by_status
count_itemdiffs_by_status(item_diffs_) ==
    <<Counter(item_diffs_, "added"), Counter(item_diffs_, "removed"),
      Counter(item_diffs_, "modified")>>

\* formatters.py lines 148-150: the SUMMARY line of StatusFormatter.format
summary_line(diff) ==
    LET counts == count_itemdiffs_by_status(diff.link_diffs \o diff.joint_diffs)
        removed_count == counts[1]
        added_count == counts[2]
        modified_count == counts[3]
    IN  "SUMMARY: " \o ToString(removed_count) \o " removed, " \o ToString(added_count)
        \o " added, " \o ToString(modified_count) \o " modified"

\* formatters.py lines 256-261 and 265-270: a header line of GitFormatter.format
header_line(title, item_diffs_) ==
    LET counts == count_itemdiffs_by_status(item_diffs_)
        removed_count == counts[1]
        added_count == counts[2]
        modified_count == counts[3]
    IN  "@@ " \o title \o " (" \o ToString(removed_count) \o " removed, "
        \o ToString(added_count) \o " added, " \o ToString(modified_count)
        \o " modified) @@"

\* The lines of the two reports that carry counts.
format(style, diff) ==
    IF style = "status" THEN <<summary_line(diff)>>
    ELSE <<header_line("Links", diff.link_diffs), header_line("Joints", diff.joint_diffs)>>

InitFormat ==
    /\ old_robot \in Robots
    /\ new_robot \in Robots
    /\ excluded_categories = ExcludedNone
    /\ float_tol = DefaultTol
    /\ result = None
    /\ pc = "call"
    /\ old_value = Unused /\ new_value = Unused /\ path = Unused
    /\ fmt = Unused /\ doc = Unused

\* cli.py lines 72-74: the diff of the two robots, rendered by the chosen formatter
Format ==
    /\ pc = "call"
    /\ \E style \in {"status", "git"} :
        /\ fmt' = style
        /\ doc' = compare_robots(old_robot, new_robot, excluded_categories, float_tol)
        /\ result' = format(style, doc')
    /\ pc' = "done"
    /\ UNCHANGED <<old_robot, new_robot, excluded_categories, float_tol,
                   old_value, new_value, path>>

NextFormat == Format

SpecFormat == InitFormat /\ [][NextFormat]_vars

\* The line with the three numbers the claim asks for
CountsLine(prefix, suffix, item_diffs_) ==
    prefix \o ToString(Counter(item_diffs_, "removed")) \o " removed, "
    \o ToString(Counter(item_diffs_, "added")) \o " added, "
    \o ToString(Counter(item_diffs_, "modified")) \o " modified" \o suffix

\* C30: the number printed as 'removed' is the number of item diffs with status
\* 'removed', and likewise for 'added' and 'modified', in the SUMMARY line of
\* StatusFormatter and in the Links and Joints headers of GitFormatter.
C30_PrintedCounts ==
    Done => IF fmt = "status"
            THEN result = <<CountsLine("SUMMARY: ", "", doc.link_diffs \o doc.joint_diffs)>>
            ELSE result = <<CountsLine("@@ Links (", ") @@", doc.link_diffs),
                            CountsLine("@@ Joints (", ") @@", doc.joint_diffs)>>

\* The modified count is printed right, and all three when as many items are
\* added as removed.
C30_ModifiedAndBalanced ==
    Done =>
        /\ \A i \in 1..Len(result) :
              Contains(result[i], ", " \o ToString(Counter(
                  IF fmt = "status" THEN doc.link_diffs \o doc.joint_diffs
                  ELSE IF i = 1 THEN doc.link_diffs ELSE doc.joint_diffs, "modified"))
                  \o " modified")
        /\ (fmt = "status"
            /\ Counter(doc.link_diffs \o doc.joint_diffs, "added")
                 = Counter(doc.link_diffs \o doc.joint_diffs, "removed"))
              => result = <<CountsLine("SUMMARY: ", "", doc.link_diffs \o doc.joint_diffs)>>

\* One link added and none removed: the report says '1 removed, 0 added'.
C30_AddedPrintedAsRemoved ==
    /\ Done /\ fmt = "status"
    /\ Counter(doc.link_diffs \o doc.joint_diffs, "added") = 1
    /\ Counter(doc.link_diffs \o doc.joint_diffs, "removed") = 0
    /\ Contains(result[1], "SUMMARY: 1 removed, 0 added")

====
